---------------------------- MODULE Spec2Model ----------------------------
(***************************************************************************)
(* Session detection and matching engine of claude-session-visualizer:     *)
(* process-to-transcript matching (get_sessions, match_process_to_session),*)
(* the mtime-keyed metadata cache (extract_jsonl_metadata) and the         *)
(* compaction continuation linker (find_session_continuation,             *)
(* extract_conversation), the cache sweep, process discovery, the         *)
(* activity timestamp and its dirty check, session state, activity         *)
(* periods and the websocket connection manager.                           *)
(*                                                                         *)
(* The specifications share the variables below; each leaves the           *)
(* variables of the other components unchanged:                            *)
(*   SpecMatcher  match_process_to_session applied to drawn inputs         *)
(*   SpecPoll     one get_sessions poll over a drawn environment           *)
(*   SpecCache    extract_jsonl_metadata against a file that is modified   *)
(*                while the clock advances                                 *)
(*   SpecCont     find_session_continuation against a project directory    *)
(*   SpecConv     extract_conversation following continuations             *)
(*   SpecConc     two pollers interleaved on _metadata_cache: the sweep of *)
(*                cleanup_stale_caches and extract_jsonl_metadata          *)
(*   SpecDisc     get_claude_processes and get_claude_processes_cached     *)
(*   SpecSweep    cleanup_stale_caches as get_all_active_state_files calls *)
(*                it; SpecSweepLive adds weak fairness of polls and time   *)
(*   SpecActivity update_activity_timestamp and get_activity_timestamp     *)
(*   SpecState    read_session_state and the polling fall-back of a record *)
(*   SpecPeriods  get_activity_periods applied to drawn event lists        *)
(*   SpecFilter   the line filter of get_claude_processes on drawn `ps`    *)
(*                output                                                   *)
(*   SpecExtract  the file read of extract_jsonl_metadata on drawn         *)
(*                transcripts                                              *)
(*   SpecBroadcast ConnectionManager: connect, disconnect and broadcast    *)
(*                interleaved                                              *)
(*   SpecDirty    check_sessions_changed against get_sessions polls and    *)
(*                file changes                                             *)
(*   SpecContLive SpecCont with weak fairness of the callers               *)
(***************************************************************************)
EXTENDS Integers, Sequences, FiniteSets, TLC

VARIABLES
    \* ---- match_process_to_session (SpecMatcher)
    m_proc,              \* the proc argument
    m_sessions,          \* the available_sessions argument as passed
    m_after,             \* the caller's list after the call (sorted in place)
    m_best,              \* the returned metadata, or NoSession for None
    m_pc,                \* "ready" | "done"
    \* ---- get_sessions (SpecPoll)
    processes,           \* what get_claude_processes_cached() returns
    transcripts,         \* the *.jsonl files of the projects dir, glob order
    active_states,       \* what get_all_active_state_files() returns, dict order
    after_pass1,         \* matched_processes / claimed_session_ids after pass 1
    pass2_before,        \* the same before each state record of pass 2
    after_pass2,         \* the same after pass 2
    pass3_groups,        \* per directory of pass 3: cwd_procs, available_sessions
    matched_processes,   \* pid -> metadata after the three passes
    claimed_session_ids, \* after the three passes
    result,              \* the list get_sessions returns
    p_pc,                \* "ready" | "done"
    \* ---- extract_jsonl_metadata and its cache (SpecCache)
    clock,               \* time.time(), in seconds
    file_exists,         \* the transcript can be stat'ed
    file_mtime,          \* its st_mtime
    file_version,        \* its contents: the number of writes it has received
    metadata_cache,      \* _metadata_cache[path]: (mtime, cache_time, data)
    last_activity_time,  \* _last_activity_time
    x_seen,              \* what the last call saw: stat, now, contents, entry
    x_read,              \* the last call opened the file and read its records
    x_ret,               \* what the last call returned
    x_prev,              \* x_seen and x_ret of the call before the last one
    \* ---- find_session_continuation and its cache (SpecCont)
    d_mtime,             \* project_dir.stat().st_mtime
    d_files,             \* the *.jsonl files of project_dir
    source_cwd,          \* get_session_cwd(source_jsonl), NONE if undetermined
    continuation_cache,  \* _continuation_cache / _continuation_cache_mtime entry
    f_pc,                \* "returned" while the directory is as the last call
                         \* saw it, "idle" otherwise
    f_ts,                \* compaction_timestamp of that call
    f_scanned,           \* that call listed the directory
    f_ret,               \* what that call returned
    f_cached,            \* that call returned the cached result
    f_before,            \* the cache entry that call found
    \* ---- extract_conversation (SpecConv)
    c_files,             \* the transcripts of the project directory
    c_cache,             \* _continuation_cache, by session id
    c_arg,               \* the arguments of the call: file, limit, follow
    c_cur,               \* the transcript the innermost call is extracting
    c_acc,               \* the messages the enclosing calls hold so far
    c_visits,            \* the transcripts extracted by this call, in order
    c_out,               \* the list the call returned
    c_pc,                \* "ready" | "running" | "done" | "error"
    \* ---- two pollers sharing _metadata_cache (SpecConc)
    k_clock,             \* time.time()
    k_files,             \* per transcript path: st_mtime and contents
    k_cache,             \* _metadata_cache
    k_last_cleanup,      \* _last_cache_cleanup
    k_thr,               \* per poller: position and locals
    k_stored,            \* every (path, mtime, metadata) ever stored
    \* ---- process discovery and its TTL cache (SpecDisc)
    g_clock,             \* time.time()
    g_os,                \* pids of the claude processes the OS runs
    g_process_cache,     \* _process_cache
    g_call,              \* the running get_claude_processes_cached call
    g_invoked,           \* commands the running discovery invoked, with timeouts
    g_last,              \* what the call that just returned saw and did
    \* ---- cleanup_stale_caches run from the poll (SpecSweep)
    w_clock,             \* time.time()
    w_state_dir,         \* STATE_DIR.exists()
    w_state_files,       \* stems of the state files in STATE_DIR
    w_metadata_cache,    \* _metadata_cache
    w_continuation_cache,\* keys of _continuation_cache
    w_last_cleanup,      \* _last_cache_cleanup
    w_polls,             \* parity of the number of polls made
    w_last,              \* what the cleanup call that just returned saw
    \* ---- the activity timestamp (SpecActivity)
    a_clock,             \* time.time()
    a_state_dir,         \* STATE_DIR.exists()
    a_state_files,       \* st_mtime of each state file, NoFile when absent
    a_state_file_mtimes, \* _state_file_mtimes
    a_last_activity_time,\* _last_activity_time
    a_ret,               \* the value get_activity_timestamp returned last
    a_prev,              \* the value it returned before that
    \* ---- the state of one session record (SpecState)
    h_file,              \* the session's hook-state file
    h_cpu,               \* proc['cpu']
    h_recency,           \* metadata.get('recency', 999999)
    h_out,               \* state and stateSource of the record appended
    h_pc,                \* "ready" | "done" | "error"
    \* ---- get_activity_periods (SpecPeriods)
    e_events,            \* the events argument
    e_periods,           \* the returned list
    e_buckets,           \* every bucket the fold closed, emitted or dropped
    e_pc,                \* "ready" | "done" | "error"
    \* ---- detection/processes.py: get_claude_processes (SpecFilter)
    l_lines,             \* the lines of the `ps aux` output
    l_devs,              \* the terminals whose device file exists
    l_out,               \* the returned list
    l_pc,                \* "ready" | "done"
    \* ---- extract_jsonl_metadata on one transcript (SpecExtract)
    t_file,              \* the transcript: stat and open outcomes, its lines
    t_out,               \* the returned dict
    t_run,               \* what the call went through: aborted, activities read
    t_pc,                \* "ready" | "done" | "error"
    \* ---- websocket.py: ConnectionManager (SpecBroadcast)
    active_connections,  \* self.active_connections, a list
    log_subscribers,     \* the keys of self.log_subscribers
    b_lock,              \* the broadcast holding self._lock, or NoHolder
    b_open,              \* the websockets whose send_text succeeds
    b_accepted,          \* the websockets connect() was called for
    b_received,          \* per websocket, the broadcasts whose message it got
    b_task,              \* per broadcast call, its position and locals
    \* ---- check_sessions_changed (SpecDirty)
    q_clock,             \* time.time()
    q_state_dir,         \* STATE_DIR.exists()
    q_state_file,        \* mtime of the hook-state file, or NoFile
    q_transcript,        \* mtime of the transcript, or NoFile
    q_state_file_mtimes, \* _state_file_mtimes
    q_metadata_cache,    \* the transcript's entry of _metadata_cache
    q_last_activity_time,\* _last_activity_time
    q_since,             \* the timestamp the previous check returned
    q_writes,            \* file events so far
    q_dirty_check,       \* kinds of data changed since the previous check
    q_dirty_poll,        \* kinds of data changed since the previous poll
    q_call               \* the last call: kind, answer, timestamp before it

mvars == <<m_proc, m_sessions, m_after, m_best, m_pc>>
pvars == <<processes, transcripts, active_states, after_pass1, pass2_before,
           after_pass2, pass3_groups, matched_processes, claimed_session_ids, result, p_pc>>
cvars == <<clock, file_exists, file_mtime, file_version, metadata_cache,
           last_activity_time, x_seen, x_read, x_ret, x_prev>>
fvars == <<d_mtime, d_files, source_cwd, continuation_cache, f_ts, f_scanned,
           f_ret, f_pc, f_cached, f_before>>
xvars == <<c_files, c_cache, c_arg, c_cur, c_acc, c_visits, c_out, c_pc>>
kvars == <<k_clock, k_files, k_cache, k_last_cleanup, k_thr, k_stored>>
gvars == <<g_clock, g_os, g_process_cache, g_call, g_invoked, g_last>>
wvars == <<w_clock, w_state_dir, w_state_files, w_metadata_cache,
           w_continuation_cache, w_last_cleanup, w_polls, w_last>>
avars == <<a_clock, a_state_dir, a_state_files, a_state_file_mtimes,
           a_last_activity_time, a_ret, a_prev>>
hvars == <<h_file, h_cpu, h_recency, h_out, h_pc>>
evars == <<e_events, e_periods, e_buckets, e_pc>>
lvars == <<l_lines, l_devs, l_out, l_pc>>
tvars == <<t_file, t_out, t_run, t_pc>>
bvars == <<active_connections, log_subscribers, b_lock, b_open, b_accepted,
           b_received, b_task>>
qvars == <<q_clock, q_state_dir, q_state_file, q_transcript,
           q_state_file_mtimes, q_metadata_cache, q_last_activity_time,
           q_since, q_writes, q_dirty_check, q_dirty_poll, q_call>>
vars == <<mvars, pvars, cvars, fvars, xvars, kvars, gvars, wvars, avars, hvars,
          evars, lvars, tvars, bvars, qvars>>

-----------------------------------------------------------------------------
(* Values *)

\* Python None for the optional string fields (session_id, cwd).
NONE == "None"

\* A timestamp string: txt = "" is an absent or empty field, "invalid" a string
\* datetime.fromisoformat rejects, "iso" an ISO-8601 string denoting second `secs`.
NoTs == [txt |-> "", secs |-> 0]
BadTs == [txt |-> "invalid", secs |-> 0]
IsoTs(t) == [txt |-> "iso", secs |-> t]

\* None as the result of match_process_to_session / a missing dict entry.
NoSession == [sessionId |-> NONE]

Abs(x) == IF x < 0 THEN -x ELSE x

\* All sequences over S of length 0..n.
SeqsUpTo(S, n) == UNION {[1..k -> S] : k \in 0..n}

-----------------------------------------------------------------------------
(* detection/matcher.py: match_process_to_session *)

\* datetime.fromisoformat(s.replace('Z', '+00:00')) succeeds
Parseable(ts) == ts.txt = "iso"

\* datetime.fromisoformat(...).timestamp()
FromIsoFormat(ts) == ts.secs

\* list.sort(key=file_mtime, reverse=True): stable, descending.  Element i goes
\* behind every element with a greater key and every earlier element with an
\* equal key.
SortByMtimeDesc(s) ==
    LET rank(i) == Cardinality({j \in 1..Len(s) :
                       \/ s[j].file_mtime > s[i].file_mtime
                       \/ (s[j].file_mtime = s[i].file_mtime /\ j < i)}) + 1
    IN  [k \in 1..Len(s) |-> s[CHOOSE i \in 1..Len(s) : rank(i) = k]]

\* The for-loop of match_process_to_session: index of best_match after
\* sessions[i..], given the index `best` so far (0 = None, best_diff = inf).
RECURSIVE ClosestLoop(_, _, _, _)
ClosestLoop(sessions, proc_start, i, best) ==
    IF i > Len(sessions) THEN best
    ELSE LET ts == sessions[i].startTimestamp IN
         IF ts.txt = "" \/ ~Parseable(ts)
         THEN ClosestLoop(sessions, proc_start, i + 1, best)
         ELSE LET diff == Abs(FromIsoFormat(ts) - proc_start)
                  best_diff == Abs(FromIsoFormat(sessions[best].startTimestamp)
                                   - proc_start)
              IN  IF best = 0 \/ diff < best_diff
                  THEN ClosestLoop(sessions, proc_start, i + 1, i)
                  ELSE ClosestLoop(sessions, proc_start, i + 1, best)

\* The body of match_process_to_session after the loop, given the loop's
\* best_match index b (0 = None) and the list as the in-place sort leaves it:
\* the returned metadata (NoSession for None) and the caller's list afterwards.
MatchBranches(proc, available_sessions, b, sorted) ==
    IF available_sessions = <<>>
    THEN [best |-> NoSession, sessions |-> available_sessions]
    ELSE IF proc.start_time = 0          \* `not proc_start`: None (or 0.0)
    THEN [best |-> sorted[1], sessions |-> sorted]
    ELSE IF b # 0
    THEN [best |-> available_sessions[b], sessions |-> available_sessions]
    ELSE [best |-> sorted[1], sessions |-> sorted]

\* Index of the first session with a parseable start timestamp (0 if none).
FirstParseable(sessions) ==
    IF \E i \in 1..Len(sessions) : Parseable(sessions[i].startTimestamp)
    THEN CHOOSE i \in 1..Len(sessions) :
            /\ Parseable(sessions[i].startTimestamp)
            /\ \A j \in 1..(i - 1) : ~Parseable(sessions[j].startTimestamp)
    ELSE 0

\* Mutant: best_diff is never compared, the first parseable session wins.
MatchFirstParseable(proc, available_sessions) ==
    MatchBranches(proc, available_sessions, FirstParseable(available_sessions),
                  SortByMtimeDesc(available_sessions))

\* Mutant: the fallback takes the list's first element without sorting it.
MatchUnsortedFallback(proc, available_sessions) ==
    MatchBranches(proc, available_sessions,
                  ClosestLoop(available_sessions, proc.start_time, 1, 0),
                  available_sessions)

\* Mutant: without the fall-back to the most recent candidate after the loop.
MatchWithoutFallback(proc, available_sessions) ==
    LET b == ClosestLoop(available_sessions, proc.start_time, 1, 0) IN
    IF b = 0 /\ proc.start_time # 0
    THEN [best |-> NoSession, sessions |-> available_sessions]
    ELSE MatchBranches(proc, available_sessions, b,
                       SortByMtimeDesc(available_sessions))

\* match_process_to_session(proc, available_sessions)
MatchProcessToSession(proc, available_sessions) ==
    MatchBranches(proc, available_sessions,
                  ClosestLoop(available_sessions, proc.start_time, 1, 0),
                  SortByMtimeDesc(available_sessions))

-----------------------------------------------------------------------------
(* SpecMatcher: match_process_to_session on drawn inputs *)

\* Largest candidate list drawn for the matcher.
MaxCand == 3

SessionNames == <<"s1", "s2", "s3", "s4", "s5", "s6">>
CwdA == "/work/a_b"
CwdB == "/work/a.b"

\* Process start times: 0 stands for None (get_process_start_time failed).
MatcherStartTimes == {0, 12, 20}
MatcherTimestamps == {NoTs, BadTs, IsoTs(10), IsoTs(20), IsoTs(30)}
MatcherMtimes == {100, 200}

MatcherCandidates ==
    [startTimestamp : MatcherTimestamps, file_mtime : MatcherMtimes]

\* Candidate i carries session id SessionNames[i]: ids in one list are distinct.
MatcherSessions(attrs) ==
    [i \in 1..Len(attrs) |->
        [sessionId |-> SessionNames[i], cwd |-> CwdA,
         startTimestamp |-> attrs[i].startTimestamp,
         file_mtime |-> attrs[i].file_mtime]]

MatcherInit ==
    /\ m_proc \in [start_time : MatcherStartTimes]
    /\ \E attrs \in SeqsUpTo(MatcherCandidates, MaxCand) :
          m_sessions = MatcherSessions(attrs)
    /\ m_after = <<>>
    /\ m_best = NoSession
    /\ m_pc = "ready"

MatchCall ==
    /\ m_pc = "ready"
    /\ LET r == MatchProcessToSession(m_proc, m_sessions) IN
          /\ m_best' = r.best
          /\ m_after' = r.sessions
    /\ m_pc' = "done"
    /\ UNCHANGED <<m_proc, m_sessions>>

Range(s) == {s[i] : i \in 1..Len(s)}

\* C6: with a process start time and at least one candidate whose start
\* timestamp parses, the returned session is a candidate with a parseable
\* timestamp whose distance to the process start time is minimal among them.
C6_ClosestStart ==
    (/\ m_pc = "done"
     /\ m_proc.start_time # 0
     /\ \E s \in Range(m_sessions) : Parseable(s.startTimestamp))
    => /\ m_best \in Range(m_sessions)
       /\ Parseable(m_best.startTimestamp)
       /\ \A s \in Range(m_sessions) :
             Parseable(s.startTimestamp) =>
                Abs(FromIsoFormat(m_best.startTimestamp) - m_proc.start_time)
                  <= Abs(FromIsoFormat(s.startTimestamp) - m_proc.start_time)

\* C6 witness: the closest session is neither first in the list nor the most
\* recently modified, and an unparseable candidate is skipped on the way.
C6_Witness ==
    /\ m_pc = "done"
    /\ m_proc.start_time = 12
    /\ Len(m_sessions) = 3
    /\ m_sessions[1].startTimestamp = IsoTs(30)
    /\ m_sessions[2].startTimestamp = BadTs
    /\ m_sessions[3].startTimestamp = IsoTs(10)
    /\ m_sessions[1].file_mtime > m_sessions[3].file_mtime
    /\ m_best = m_sessions[3]

\* C7: without a process start time, or without any parseable candidate
\* timestamp, the returned session is a candidate of greatest file_mtime.
C7_MostRecentFallback ==
    (/\ m_pc = "done"
     /\ m_sessions # <<>>
     /\ \/ m_proc.start_time = 0
        \/ \A s \in Range(m_sessions) : ~Parseable(s.startTimestamp))
    => /\ m_best \in Range(m_sessions)
       /\ \A s \in Range(m_sessions) : s.file_mtime <= m_best.file_mtime

\* C7 witness: a process with a start time, all timestamps absent or invalid,
\* and the most recently modified candidate is last in the list.
C7_Witness ==
    /\ m_pc = "done"
    /\ m_proc.start_time # 0
    /\ Len(m_sessions) = 3
    /\ m_sessions[1].startTimestamp = BadTs
    /\ m_sessions[2].startTimestamp = NoTs
    /\ m_sessions[1].file_mtime < m_sessions[3].file_mtime
    /\ m_sessions[2].file_mtime < m_sessions[3].file_mtime
    /\ m_best = m_sessions[3]

-----------------------------------------------------------------------------
(* session_detector.py: get_sessions *)

\* detection/jsonl_parser.py cwd_to_project_slug: '/', '.' and '_' become '-'.
\* Both working directories of the model map to one project directory.
CwdToProjectSlug(cwd) ==
    CASE cwd = CwdA -> "-work-a-b"
      [] cwd = CwdB -> "-work-a-b"
      [] OTHER -> "-"

\* What extract_jsonl_metadata yields for a transcript file: sessionId is the
\* last sessionId a record of the file carries (the file's stem if none does),
\* cwd the last cwd ('' if none), startTimestamp the first timestamp of the
\* first 20 lines, file_mtime the file's mtime.
ExtractJsonlMetadata(file) ==
    [sessionId |-> file.sessionId, cwd |-> file.cwd,
     startTimestamp |-> file.startTimestamp, file_mtime |-> file.file_mtime]

\* get_session_metadata(session_id): the first <session_id>.jsonl found in a
\* project directory, or None.
GetSessionMetadata(session_id, files) ==
    IF \E i \in 1..Len(files) : files[i].stem = session_id
    THEN ExtractJsonlMetadata(
            files[CHOOSE i \in 1..Len(files) :
                     /\ files[i].stem = session_id
                     /\ \A j \in 1..(i - 1) : files[j].stem # session_id])
    ELSE NoSession

\* get_sessions_for_cwd(cwd): the non-agent transcripts of the project
\* directory of cwd whose recorded cwd equals cwd, in glob order.
GetSessionsForCwd(cwd, files) ==
    LET keep(f) == /\ f.dir = CwdToProjectSlug(cwd)
                   /\ ~f.agent
                   /\ ExtractJsonlMetadata(f).cwd = cwd
        F[i \in 0..Len(files)] ==
            IF i = 0 THEN <<>>
            ELSE IF keep(files[i])
                 THEN Append(F[i - 1], ExtractJsonlMetadata(files[i]))
                 ELSE F[i - 1]
    IN  IF cwd = NONE \/ cwd = "" THEN <<>> ELSE F[Len(files)]

\* matched_processes[pid] = metadata
Bind(matched, pid, metadata) ==
    [q \in (DOMAIN matched) \cup {pid} |->
        IF q = pid THEN metadata ELSE matched[q]]

\* The matching state carried across the passes: matched_processes (whose
\* domain is claimed_pids) and claimed_session_ids.
NoMatches == [matched |-> <<>>, claimed |-> {}]

\* Mutant: the resume pass claims the id but binds the process to the first
\* transcript of its working directory instead of the one the id names.
Pass1StepByCwd(st, proc, files) ==
    IF proc.session_id = NONE THEN st
    ELSE LET metadata == GetSessionMetadata(proc.session_id, files)
             here == GetSessionsForCwd(proc.cwd, files)
         IN  IF metadata = NoSession THEN st
             ELSE [matched |-> Bind(st.matched, proc.pid,
                                    IF here # <<>> THEN here[1] ELSE metadata),
                   claimed |-> st.claimed \cup {proc.session_id}]

\* Pass 1, one iteration of `for proc in processes`.
Pass1Step(st, proc, files) ==
    IF proc.session_id = NONE THEN st
    ELSE LET metadata == GetSessionMetadata(proc.session_id, files) IN
         IF metadata = NoSession THEN st
         ELSE [matched |-> Bind(st.matched, proc.pid, metadata),
               claimed |-> st.claimed \cup {proc.session_id}]

Pass1(procs, files) ==
    LET F[i \in 0..Len(procs)] ==
            IF i = 0 THEN NoMatches ELSE Pass1Step(F[i - 1], procs[i], files)
    IN  F[Len(procs)]

\* Path(transcript_path).exists(): the path is a (dir, stem) pair.
NoPath == [dir |-> "", stem |-> ""]
PathExists(path, files) ==
    \E i \in 1..Len(files) : files[i].dir = path.dir /\ files[i].stem = path.stem
FileAt(path, files) ==
    files[CHOOSE i \in 1..Len(files) :
             files[i].dir = path.dir /\ files[i].stem = path.stem]

\* Pass 2, the inner `for proc in processes` for one state record: index of
\* the process that is bound (0 if the loop ends without a bind).
Pass2Pick(st, state, procs, files) ==
    LET ok(i) == /\ procs[i].pid \notin DOMAIN st.matched
                 /\ procs[i].cwd = state.cwd
                 /\ state.transcript_path # NoPath
                 /\ PathExists(state.transcript_path, files)
    IN  IF \E i \in 1..Len(procs) : ok(i)
        THEN CHOOSE i \in 1..Len(procs) : ok(i) /\ \A j \in 1..(i - 1) : ~ok(j)
        ELSE 0

\* extract_jsonl_metadata(Path(transcript_path)) as pass 2 calls it.
Pass2Metadata(state, files) ==
    IF PathExists(state.transcript_path, files)
    THEN ExtractJsonlMetadata(FileAt(state.transcript_path, files))
    ELSE [sessionId |-> state.transcript_path.stem, cwd |-> "",
          startTimestamp |-> NoTs, file_mtime |-> 0]

\* Mutant: the bind forgets claimed_session_ids.add(session_id).
Pass2StepNoClaim(st, state, procs, files) ==
    IF state.session_id \in st.claimed THEN st
    ELSE LET i == Pass2Pick(st, state, procs, files) IN
         IF i = 0 THEN st
         ELSE [matched |-> Bind(st.matched, procs[i].pid,
                                Pass2Metadata(state, files)),
               claimed |-> st.claimed]

\* Pass 2, one iteration of `for session_id, state in active_states.items()`.
Pass2Step(st, state, procs, files) ==
    IF state.session_id \in st.claimed THEN st
    ELSE LET i == Pass2Pick(st, state, procs, files) IN
         IF i = 0 THEN st
         ELSE [matched |-> Bind(st.matched, procs[i].pid,
                                Pass2Metadata(state, files)),
               claimed |-> st.claimed \cup {state.session_id}]

\* Pass 2: the matching state before each state record (entry i, for
\* i <= Len(states)) and after the last one (entry Len(states) + 1).
Pass2Trace(st1, states, procs, files) ==
    LET F[i \in 0..Len(states)] ==
            IF i = 0 THEN st1 ELSE Pass2Step(F[i - 1], states[i], procs, files)
    IN  [i \in 1..(Len(states) + 1) |-> F[i - 1]]

Pass2(st1, states, procs, files) ==
    Pass2Trace(st1, states, procs, files)[Len(states) + 1]

\* Mutant: a bound session stays in the pool for the directory's next process.
Pass3ProcsKeepPool(st0, available0, cwd_procs) ==
    LET F[i \in 0..Len(cwd_procs)] ==
            IF i = 0 THEN st0
            ELSE LET r == MatchProcessToSession(cwd_procs[i], available0) IN
                 IF r.best = NoSession THEN F[i - 1]
                 ELSE [matched |-> Bind(F[i - 1].matched, cwd_procs[i].pid,
                                        r.best),
                       claimed |-> F[i - 1].claimed \cup {r.best.sessionId}]
    IN  F[Len(cwd_procs)]

\* Pass 3, the inner `for proc in cwd_procs` of one working directory: the
\* matching state and the available_sessions list after process i.
Pass3Procs(st0, available0, cwd_procs) ==
    LET F[i \in 0..Len(cwd_procs)] ==
            IF i = 0 THEN [st |-> st0, available |-> available0]
            ELSE LET prev == F[i - 1]
                     r == MatchProcessToSession(cwd_procs[i], prev.available)
                 IN  IF r.best = NoSession
                     THEN [st |-> prev.st, available |-> r.sessions]
                     ELSE [st |-> [matched |-> Bind(prev.st.matched,
                                                    cwd_procs[i].pid, r.best),
                                   claimed |-> prev.st.claimed
                                                 \cup {r.best.sessionId}],
                           available |->
                               SelectSeq(r.sessions,
                                   LAMBDA s : s.sessionId # r.best.sessionId)]
    IN  F[Len(cwd_procs)].st

\* procs_by_cwd: the unclaimed processes with a working directory ...
Pass3Unclaimed(st, procs) ==
    SelectSeq(procs, LAMBDA p : /\ p.pid \notin DOMAIN st.matched
                                /\ p.cwd # NONE /\ p.cwd # "")

\* ... and its keys in insertion order (first appearance of each cwd).
Pass3Cwds(unclaimed) ==
    LET F[i \in 0..Len(unclaimed)] ==
            IF i = 0 THEN <<>>
            ELSE IF \E k \in 1..Len(F[i - 1]) : F[i - 1][k] = unclaimed[i].cwd
                 THEN F[i - 1]
                 ELSE Append(F[i - 1], unclaimed[i].cwd)
    IN  F[Len(unclaimed)]

\* available_sessions of a directory at the start of its pass-3 iteration.
Pass3Available(st, cwd, files) ==
    SelectSeq(GetSessionsForCwd(cwd, files),
              LAMBDA s : s.sessionId \notin st.claimed)

\* Pass 3: `for cwd, cwd_procs in procs_by_cwd.items()`.  Entry g of groups
\* holds what iteration g starts with: cwd, cwd_procs and available_sessions.
Pass3(st2, procs, files) ==
    LET unclaimed == Pass3Unclaimed(st2, procs)
        cwds == Pass3Cwds(unclaimed)
        group(g) == SelectSeq(unclaimed, LAMBDA p : p.cwd = cwds[g])
        F[g \in 0..Len(cwds)] ==
            IF g = 0 THEN st2
            ELSE Pass3Procs(F[g - 1],
                            Pass3Available(F[g - 1], cwds[g], files),
                            group(g))
    IN  [st |-> F[Len(cwds)],
         groups |-> [g \in 1..Len(cwds) |->
                       [cwd |-> cwds[g], cwd_procs |-> group(g),
                        available_sessions |->
                            Pass3Available(F[g - 1], cwds[g], files)]]]

\* now = time.time() of the poll; file mtimes are drawn relative to it.
PollNow == 1000
\* config.py ACTIVE_RECENCY_SECONDS
ACTIVE_RECENCY_SECONDS == 30
\* config.py ACTIVE_CPU_THRESHOLD (0.5 percent), in tenths of a percent
ACTIVE_CPU_THRESHOLD == 5

\* read_session_state(session_id): the fresh, valid state file of the session.
\* State files are named after the session_id they record and carry updated_at.
ReadSessionState(session_id, states) ==
    IF \E i \in 1..Len(states) : states[i].session_id = session_id
    THEN states[CHOOSE i \in 1..Len(states) : states[i].session_id = session_id]
    ELSE [session_id |-> NONE]

\* Every record carries the pid of the first process.
SessionRecordFirstPid(proc, metadata, states) ==
    LET hook_state == ReadSessionState(metadata.sessionId, states)
        recency == PollNow - metadata.file_mtime
        polled == IF recency < ACTIVE_RECENCY_SECONDS
                     \/ proc.cpu > ACTIVE_CPU_THRESHOLD
                  THEN "active" ELSE "waiting"
    IN  [sessionId |-> metadata.sessionId, cwd |-> metadata.cwd,
         pid |-> 1, cpuPercent |-> proc.cpu,
         startTimestamp |-> metadata.startTimestamp,
         state |-> IF hook_state.session_id # NONE THEN hook_state.state
                   ELSE polled,
         stateSource |-> IF hook_state.session_id # NONE THEN "hooks"
                         ELSE "polling"]
\* The record get_sessions appends for a matched process.
SessionRecord(proc, metadata, states) ==
    LET hook_state == ReadSessionState(metadata.sessionId, states)
        recency == PollNow - metadata.file_mtime
        polled == IF recency < ACTIVE_RECENCY_SECONDS
                     \/ proc.cpu > ACTIVE_CPU_THRESHOLD
                  THEN "active" ELSE "waiting"
    IN  [sessionId |-> metadata.sessionId, cwd |-> metadata.cwd,
         pid |-> proc.pid, cpuPercent |-> proc.cpu,
         startTimestamp |-> metadata.startTimestamp,
         state |-> IF hook_state.session_id # NONE THEN hook_state.state
                   ELSE polled,
         stateSource |-> IF hook_state.session_id # NONE THEN "hooks"
                         ELSE "polling"]

\* Mutant: an unmatched process ends the result loop (break for continue).
BuildResultBreak(matched, procs, states) ==
    LET F[i \in 0..Len(procs)] ==
            IF i = 0 THEN <<>>
            ELSE IF /\ procs[i].pid \in DOMAIN matched
                    /\ \A j \in 1..i : procs[j].pid \in DOMAIN matched
                 THEN Append(F[i - 1],
                             SessionRecord(procs[i], matched[procs[i].pid],
                                           states))
                 ELSE F[i - 1]
    IN  F[Len(procs)]

\* "Build result from matched processes": unmatched processes are skipped.
BuildResult(matched, procs, states) ==
    LET F[i \in 0..Len(procs)] ==
            IF i = 0 THEN <<>>
            ELSE IF procs[i].pid \in DOMAIN matched
                 THEN Append(F[i - 1],
                             SessionRecord(procs[i], matched[procs[i].pid],
                                           states))
                 ELSE F[i - 1]
    IN  F[Len(procs)]

\* result.sort(key=(-1 if active else 0, -cpuPercent)): stable.
SortResult(r) ==
    LET k1(x) == IF x.state = "active" THEN -1 ELSE 0
        before(a, b) == \/ k1(a) < k1(b)
                        \/ (k1(a) = k1(b) /\ a.cpuPercent > b.cpuPercent)
        rank(i) == Cardinality({j \in 1..Len(r) :
                       \/ before(r[j], r[i])
                       \/ (~before(r[i], r[j]) /\ j < i)}) + 1
    IN  [k \in 1..Len(r) |-> r[CHOOSE i \in 1..Len(r) : rank(i) = k]]

\* get_sessions(): the three passes, the result loop and the sort.
GetSessions(procs, files, states) ==
    LET st1 == Pass1(procs, files)
        trace2 == Pass2Trace(st1, states, procs, files)
        st2 == Pass2(st1, states, procs, files)
        p3 == Pass3(st2, procs, files)
    IN  [pass1 |-> st1, pass2 |-> st2, pass2_before |-> trace2,
         pass3 |-> p3.st, pass3_groups |-> p3.groups,
         result |-> SortResult(BuildResult(p3.st.matched, procs, states))]

-----------------------------------------------------------------------------
(* SpecPoll: one get_sessions poll over a drawn environment *)

\* Most processes, transcripts and live state files in one poll.
MaxProcs == 2
MaxFiles == 2
MaxHooks == 1

ProjectDir == "-work-a-b"

\* A resume id no transcript is named after.
UnknownId == SessionNames[MaxFiles + 1]

\* Process i of the list has pid i (ps lists every pid once).
MakeProcs(attrs) ==
    [i \in 1..Len(attrs) |->
        [pid |-> i, session_id |-> attrs[i].session_id, cwd |-> attrs[i].cwd,
         start_time |-> attrs[i].start_time, cpu |-> 0]]

\* Transcript i is <ProjectDir>/<SessionNames[i]>.jsonl.  Its records carry
\* its own stem as sessionId ("own") or the stem of the next file ("alt").
MakeFiles(attrs) ==
    [i \in 1..Len(attrs) |->
        [dir |-> ProjectDir, stem |-> SessionNames[i], agent |-> FALSE,
         sessionId |-> IF attrs[i].sid = "own" THEN SessionNames[i]
                       ELSE SessionNames[(i % MaxFiles) + 1],
         cwd |-> attrs[i].cwd, startTimestamp |-> attrs[i].startTimestamp,
         file_mtime |-> attrs[i].file_mtime]]

\* A state record names the transcript of its own session, or none.
MakeHooks(attrs) ==
    [i \in 1..Len(attrs) |->
        [session_id |-> attrs[i].session_id, cwd |-> attrs[i].cwd,
         transcript_path |-> IF attrs[i].has_path
                             THEN [dir |-> ProjectDir,
                                   stem |-> attrs[i].session_id]
                             ELSE NoPath,
         state |-> "waiting"]]

\* active_states is a dict: its keys are distinct.
DistinctKeys(hooks) ==
    \A i, j \in 1..Len(hooks) :
        hooks[i].session_id = hooks[j].session_id => i = j

\* Environments about the resume pass: resume ids with and without a
\* transcript, transcripts whose records carry another session id.
ResumeEnv ==
    /\ \E a \in SeqsUpTo([session_id : {NONE, SessionNames[1], UnknownId},
                          cwd : {NONE, CwdA}, start_time : {10}], MaxProcs) :
          processes = MakeProcs(a)
    /\ \E a \in SeqsUpTo([sid : {"own", "alt"}, cwd : {CwdA, CwdB},
                          startTimestamp : {IsoTs(10)}, file_mtime : {990}],
                         MaxFiles) :
          transcripts = MakeFiles(a)
    /\ active_states = <<>>

\* Environments about the heuristic pass: co-located processes with and
\* without start times, transcripts with and without start timestamps.
HeuristicEnv ==
    /\ \E a \in SeqsUpTo([session_id : {NONE}, cwd : {CwdA, CwdB},
                          start_time : {0, 12}], MaxProcs) :
          processes = MakeProcs(a)
    /\ \E a \in SeqsUpTo([sid : {"own"}, cwd : {CwdA},
                          startTimestamp : {NoTs, IsoTs(10), IsoTs(20)},
                          file_mtime : {960, 990}], MaxFiles) :
          transcripts = MakeFiles(a)
    /\ active_states = <<>>

\* Environments about the state-file pass: state records with and without a
\* transcript path, for claimed and unclaimed sessions.
HookEnv ==
    /\ \E a \in SeqsUpTo([session_id : {NONE, SessionNames[1]},
                          cwd : {CwdA, CwdB}, start_time : {10}], MaxProcs) :
          processes = MakeProcs(a)
    /\ \E a \in SeqsUpTo([sid : {"own"}, cwd : {CwdA, CwdB},
                          startTimestamp : {IsoTs(10)}, file_mtime : {960}],
                         MaxFiles) :
          transcripts = MakeFiles(a)
    /\ \E a \in SeqsUpTo([session_id : {SessionNames[1], SessionNames[2]},
                          cwd : {CwdA, CwdB}, has_path : BOOLEAN], MaxHooks) :
          /\ active_states = MakeHooks(a)
          /\ DistinctKeys(active_states)

PollIdle ==
    /\ after_pass1 = NoMatches
    /\ pass2_before = <<>>
    /\ after_pass2 = NoMatches
    /\ pass3_groups = <<>>
    /\ matched_processes = <<>>
    /\ claimed_session_ids = {}
    /\ result = <<>>
    /\ p_pc = "ready"

PollInit ==
    /\ ResumeEnv \/ HeuristicEnv \/ HookEnv
    /\ PollIdle

\* One call of get_sessions().
GetSessionsCall ==
    /\ p_pc = "ready"
    /\ LET r == GetSessions(processes, transcripts, active_states) IN
          /\ after_pass1' = r.pass1
          /\ pass2_before' = r.pass2_before
          /\ after_pass2' = r.pass2
          /\ pass3_groups' = r.pass3_groups
          /\ matched_processes' = r.pass3.matched
          /\ claimed_session_ids' = r.pass3.claimed
          /\ result' = r.result
    /\ p_pc' = "done"
    /\ UNCHANGED <<processes, transcripts, active_states>>

Procs == Range(processes)
Files == Range(transcripts)
Records == Range(result)

\* The record of the output for pid, if any.
RecordsOf(pid) == {r \in Records : r.pid = pid}

\* C1 (as claimed): no two records of one poll share a sessionId.
C1_UniqueSessionIds ==
    p_pc = "done" =>
        \A i, j \in 1..Len(result) :
            result[i].sessionId = result[j].sessionId => i = j

\* C2 (as claimed): every reported process that carries a resume id is
\* reported under that id.
C2_ResumeIdReported ==
    p_pc = "done" =>
        \A p \in Procs : \A r \in RecordsOf(p.pid) :
            p.session_id # NONE => r.sessionId = p.session_id

\* The transcript get_session_metadata finds for a resume id: the first file
\* named <id>.jsonl.
ResumeTranscripts(id) ==
    {f \in Files : f.stem = id /\
        \A i, j \in 1..Len(transcripts) :
            (transcripts[j] = f /\ transcripts[i].stem = id) => j <= i}

\* C2 (amended): a process whose resume id names an existing transcript is
\* reported, with the session id that transcript records, whatever transcripts
\* exist for its working directory; that id is the resume id when the
\* transcript's records carry no other sessionId.
C2_ResumeBindsTranscript ==
    p_pc = "done" =>
        \A p \in Procs : \A f \in ResumeTranscripts(p.session_id) :
            /\ RecordsOf(p.pid) # {}
            /\ \A r \in RecordsOf(p.pid) :
                  /\ r.sessionId = f.sessionId
                  /\ f.sessionId = f.stem => r.sessionId = p.session_id

\* C2 witness: the resumed transcript belongs to another working directory
\* than the process, whose own directory holds another transcript.
C2_Witness ==
    /\ p_pc = "done"
    /\ \E p \in Procs : \E f, g \in Files :
          /\ p.session_id = f.stem /\ f.sessionId = f.stem
          /\ f.cwd # p.cwd /\ g.cwd = p.cwd /\ g.sessionId # f.sessionId
          /\ \E r \in RecordsOf(p.pid) : r.sessionId = p.session_id

\* C25: no two records of one poll carry the same pid, and every record's pid
\* is the pid of a process of the list the poll discovered.
C25_UniqueDiscoveredPids ==
    p_pc = "done" =>
        /\ \A i, j \in 1..Len(result) : result[i].pid = result[j].pid => i = j
        /\ \A r \in Records : \E p \in Procs : p.pid = r.pid

\* C25 witness: a poll that returned two records, for two processes.
C25_Witness ==
    /\ p_pc = "done"
    /\ Len(result) = 2
    /\ result[1].pid # result[2].pid
    /\ Len(processes) = 2

\* Pass-3 groups of exactly two processes, neither with a resume id, whose
\* directory offers at least two unclaimed transcripts of different sessions.
CoLocatedPairs ==
    {g \in Range(pass3_groups) :
        /\ Len(g.cwd_procs) = 2
        /\ \A p \in Range(g.cwd_procs) : p.session_id = NONE
        /\ \E s, t \in Range(g.available_sessions) : s.sessionId # t.sessionId}

UnclaimedAt(st, cwd) ==
    {p \in Procs : p.pid \notin DOMAIN st.matched /\ p.cwd = cwd}

C9_UnmatchedDropped ==
    p_pc = "done" =>
        /\ \A p \in Procs :
              /\ p.pid \notin DOMAIN matched_processes => RecordsOf(p.pid) = {}
              /\ p.pid \in DOMAIN matched_processes =>
                    \E r \in RecordsOf(p.pid) :
                        r.sessionId = matched_processes[p.pid].sessionId
        /\ Len(result) = Cardinality(DOMAIN matched_processes)

\* C9 witness: the first process has no working directory and no match, the
\* second is matched and reported.
C9_Witness ==
    /\ p_pc = "done"
    /\ Len(processes) = 2
    /\ processes[1].cwd = NONE
    /\ 1 \notin DOMAIN matched_processes
    /\ 2 \in DOMAIN matched_processes
    /\ Len(result) = 1 /\ result[1].pid = 2

-----------------------------------------------------------------------------
(* session_detector.py: extract_jsonl_metadata and _metadata_cache *)

\* METADATA_CACHE_TTL
METADATA_CACHE_TTL == 60

\* The transcript the cache specification extracts.
CachePath == [dir |-> ProjectDir, stem |-> SessionNames[1]]

\* `path_str in _metadata_cache` is false.
NoEntry == [mtime |-> -1, cache_time |-> -1, data |-> NoSession]

\* The contents on which the read fails: every other write leaves the
\* transcript with a line that makes the loop raise, and the next one repairs
\* it.
Unreadable(version) == version % 2 = 1

\* The dict the read of the file yields: its fields are functions of the
\* file's contents (version) and of the mtime the call stat'ed.  When the read
\* raises, `except Exception` keeps what was read before the error: a partial
\* record.
ReadMetadata(version, current_mtime) ==
    [sessionId |-> CachePath.stem, cwd |-> CwdA, contents |-> version,
     file_mtime |-> current_mtime, partial |-> Unreadable(version)]

\* The dict returned when stat raises OSError.
StatFailed == [sessionId |-> CachePath.stem, slug |-> CachePath.stem, cwd |-> ""]

\* Mutant: the cache test ignores the entry's age.
CacheHitNoTtl(entry, current_mtime, now) ==
    /\ entry # NoEntry
    /\ entry.mtime = current_mtime

\* Mutant: the cache test compares against a TTL of zero and never hits.
CacheHitNever(entry, current_mtime, now) ==
    /\ entry # NoEntry
    /\ entry.mtime = current_mtime
    /\ (now - entry.cache_time) < 0

\* The cache test of extract_jsonl_metadata.
CacheHit(entry, current_mtime, now) ==
    /\ entry # NoEntry
    /\ entry.mtime = current_mtime
    /\ (now - entry.cache_time) < METADATA_CACHE_TTL

\* Mutant: a partial record is returned and not stored.
CacheStoreUnlessPartial(entry, current_mtime, now, metadata) ==
    IF metadata.partial THEN entry
    ELSE [mtime |-> current_mtime, cache_time |-> now, data |-> metadata]

\* _metadata_cache[path_str] = (current_mtime, time.time(), metadata), reached
\* after a read that completed and after one that raised alike.
CacheStore(entry, current_mtime, now, metadata) ==
    [mtime |-> current_mtime, cache_time |-> now, data |-> metadata]

\* Nothing seen yet / stat raised.
NoStat == [stat_ok |-> FALSE, mtime |-> -1, now |-> -1, version |-> -1,
           entry |-> NoEntry]

\* extract_jsonl_metadata(path): stat, the cache test, and on a miss the read
\* of the file, the cache store and update_activity_timestamp().
ExtractCall ==
    /\ x_prev' = [seen |-> x_seen, ret |-> x_ret]
    /\ IF ~file_exists
       THEN /\ x_seen' = [NoStat EXCEPT !.now = clock, !.entry = metadata_cache]
            /\ x_read' = FALSE
            /\ x_ret' = StatFailed
            /\ UNCHANGED <<metadata_cache, last_activity_time>>
       ELSE /\ x_seen' = [stat_ok |-> TRUE, mtime |-> file_mtime, now |-> clock,
                          version |-> file_version, entry |-> metadata_cache]
            /\ IF CacheHit(metadata_cache, file_mtime, clock)
               THEN /\ x_read' = FALSE
                    /\ x_ret' = metadata_cache.data
                    /\ UNCHANGED <<metadata_cache, last_activity_time>>
               ELSE /\ x_read' = TRUE
                    /\ x_ret' = ReadMetadata(file_version, file_mtime)
                    /\ metadata_cache' =
                          CacheStore(metadata_cache, file_mtime, clock,
                                     ReadMetadata(file_version, file_mtime))
                    /\ last_activity_time' = clock
    /\ UNCHANGED <<clock, file_exists, file_mtime, file_version>>

\* Bounds of the cache specification.
MaxClock == 160
MaxWrites == 2
TickSteps == {20, 40}

\* Another program appends to the transcript; st_mtime has the clock's
\* granularity, so a write within the same tick leaves the mtime as it was.
ModifyFile ==
    /\ file_exists
    /\ file_version < MaxWrites
    /\ file_version' = file_version + 1
    /\ file_mtime' = clock
    /\ UNCHANGED <<clock, file_exists, metadata_cache, last_activity_time,
                   x_seen, x_read, x_ret, x_prev>>

\* The transcript is removed.
DeleteFile ==
    /\ file_exists
    /\ file_exists' = FALSE
    /\ UNCHANGED <<clock, file_mtime, file_version, metadata_cache,
                   last_activity_time, x_seen, x_read, x_ret, x_prev>>

\* The transcript is written anew.
CreateFile ==
    /\ ~file_exists
    /\ file_version < MaxWrites
    /\ file_exists' = TRUE
    /\ file_version' = file_version + 1
    /\ file_mtime' = clock
    /\ UNCHANGED <<clock, metadata_cache, last_activity_time,
                   x_seen, x_read, x_ret, x_prev>>

\* Time passes.
Tick ==
    \E d \in TickSteps :
        /\ clock + d <= MaxClock
        /\ clock' = clock + d
        /\ UNCHANGED <<file_exists, file_mtime, file_version, metadata_cache,
                       last_activity_time, x_seen, x_read, x_ret, x_prev>>

CacheInit ==
    /\ clock = 0
    /\ file_exists = TRUE
    /\ file_mtime = 0
    /\ file_version = 0
    /\ metadata_cache = NoEntry
    /\ last_activity_time = 0
    /\ x_seen = NoStat
    /\ x_read = FALSE
    /\ x_ret = NoSession
    /\ x_prev = [seen |-> NoStat, ret |-> NoSession]

\* The entry the last call found was usable: present, of the mtime the call
\* stat'ed, and younger than the TTL.
SeenFresh(seen) ==
    /\ seen.entry # NoEntry
    /\ seen.entry.mtime = seen.mtime
    /\ (seen.now - seen.entry.cache_time) < METADATA_CACHE_TTL

\* C4: a call that could stat the file returns the cached value only if the
\* file's current mtime equals the mtime stored with the entry and the entry is
\* younger than the TTL; in every other case it reads the file and returns (and
\* caches) what the file holds now.  Either way the value returned carries the
\* mtime the call stat'ed.
C4_CachedOnlyIfFresh ==
    x_seen.stat_ok =>
        /\ ~x_read => (SeenFresh(x_seen) /\ x_ret = x_seen.entry.data)
        /\ ~SeenFresh(x_seen) =>
              /\ x_read
              /\ x_ret = ReadMetadata(x_seen.version, x_seen.mtime)
        /\ x_ret.file_mtime = x_seen.mtime

\* C4 witness: a call found an entry of the right mtime that had reached the
\* TTL and read the file again, after an earlier call had been served from
\* that entry.
C4_Witness ==
    /\ x_seen.stat_ok
    /\ x_seen.entry # NoEntry
    /\ x_seen.entry.mtime = x_seen.mtime
    /\ (x_seen.now - x_seen.entry.cache_time) >= METADATA_CACHE_TTL
    /\ x_read
    /\ x_prev.seen.stat_ok
    /\ SeenFresh(x_prev.seen)

\* C5: when the mtime a call stats is the one the previous call stat'ed and
\* less than the TTL has passed since the cached result was stored, the call
\* reads nothing and returns a value equal to the previous call's.
C5_RepeatIsCachedAndEqual ==
    ( /\ x_seen.stat_ok
      /\ x_prev.seen.stat_ok
      /\ x_seen.mtime = x_prev.seen.mtime
      /\ x_seen.entry # NoEntry
      /\ (x_seen.now - x_seen.entry.cache_time) < METADATA_CACHE_TTL )
    => (~x_read /\ x_ret = x_prev.ret)

\* C5 witness: a second call, later than the first but within the TTL, on a
\* file whose mtime had not moved, was served without a read.
C5_Witness ==
    /\ x_seen.stat_ok
    /\ x_prev.seen.stat_ok
    /\ x_seen.mtime = x_prev.seen.mtime
    /\ x_seen.now > x_prev.seen.now
    /\ (x_seen.now - x_seen.entry.cache_time) < METADATA_CACHE_TTL
    /\ ~x_read
    /\ x_ret = x_prev.ret

\* The entry the last call found held a partial record.
SeenPartial(seen) == seen.entry # NoEntry /\ seen.entry.data.partial

\* C40: a partial record produced by a failed read is stored in the cache
\* under the mtime/TTL policy of a successful result: it is stored with the
\* mtime the call stat'ed and the time of the call; a later call that finds
\* it with the file's mtime unchanged and within the TTL returns it without
\* reading; the first call that finds it expired or the mtime changed reads
\* the file again.
C40_PartialCachedLikeSuccess ==
    x_seen.stat_ok =>
        /\ (x_read /\ x_ret.partial) =>
              metadata_cache = [mtime |-> x_seen.mtime, cache_time |-> x_seen.now,
                                data |-> x_ret]
        /\ (SeenPartial(x_seen) /\ SeenFresh(x_seen)) =>
              (~x_read /\ x_ret = x_seen.entry.data /\ metadata_cache = x_seen.entry)
        /\ (SeenPartial(x_seen) /\ ~SeenFresh(x_seen)) =>
              (x_read /\ x_ret = ReadMetadata(x_seen.version, x_seen.mtime))

\* C40 witness: a call read the unreadable file and returned a partial
\* record; the next call, later and within the TTL, the mtime unchanged,
\* returned that record without reading.
C40_Witness ==
    /\ x_seen.stat_ok
    /\ x_prev.seen.stat_ok
    /\ ~SeenPartial(x_prev.seen)
    /\ SeenPartial(x_seen)
    /\ x_seen.now > x_prev.seen.now
    /\ x_seen.mtime = x_prev.seen.mtime
    /\ ~x_read
    /\ x_ret.partial
    /\ x_ret = x_prev.ret

\* C40, expiry: a call found the partial record of the unchanged file at the
\* TTL and read the file again.
C40_RetriedAfterExpiry ==
    /\ x_seen.stat_ok
    /\ SeenPartial(x_seen)
    /\ x_seen.entry.mtime = x_seen.mtime
    /\ (x_seen.now - x_seen.entry.cache_time) >= METADATA_CACHE_TTL
    /\ x_read
    /\ x_ret.partial

-----------------------------------------------------------------------------
(* session_detector.py: find_session_continuation and _continuation_cache *)

\* The ceiling of `0 < delta < 60`.
ContinuationCeiling == 60

\* float('inf')
Infinity == 1000000

\* The compacted session, and a background-worker transcript.
SourceId == SessionNames[1]
AgentStem == "agent-1"

\* jsonl_path.stem.startswith('agent-')
StartsWithAgent(stem) == stem = AgentStem

\* get_session_start_timestamp: the first timestamp among the first lines that
\* datetime.fromisoformat accepts; 0 stands for None.
GetSessionStartTimestamp(file) ==
    IF Parseable(file.first_ts) THEN FromIsoFormat(file.first_ts) ELSE 0

\* get_session_cwd
GetSessionCwd(file) == file.cwd

\* `session_id in _continuation_cache` is false.
NoContinuationEntry == [present |-> FALSE, value |-> NONE, mtime |-> 0]

\* Mutant: the window of the scan starts at a delta of 0 s.
RECURSIVE ScanLoopFromZero(_, _, _, _, _, _)
ScanLoopFromZero(session_id, files, i, compaction_time, src_cwd, best) ==
    IF i > Len(files) THEN best.match
    ELSE LET jsonl_path == files[i]
             start_time == GetSessionStartTimestamp(jsonl_path)
             delta == start_time - compaction_time
             next ==
                 IF jsonl_path.stem = session_id THEN best
                 ELSE IF StartsWithAgent(jsonl_path.stem) THEN best
                 ELSE IF start_time = 0 THEN best
                 ELSE IF 0 <= delta /\ delta < ContinuationCeiling
                         /\ delta < best.delta
                      THEN IF src_cwd # NONE /\ GetSessionCwd(jsonl_path) # src_cwd
                           THEN best
                           ELSE [match |-> jsonl_path.stem, delta |-> delta]
                      ELSE best
         IN ScanLoopFromZero(session_id, files, i + 1, compaction_time,
                             src_cwd, next)

\* for jsonl_path in project_dir.glob("*.jsonl"): the loop over the listing
\* `files`, from position i on, with the best match so far.
RECURSIVE ScanLoop(_, _, _, _, _, _)
ScanLoop(session_id, files, i, compaction_time, src_cwd, best) ==
    IF i > Len(files) THEN best.match
    ELSE LET jsonl_path == files[i]
             start_time == GetSessionStartTimestamp(jsonl_path)
             delta == start_time - compaction_time
             next ==
                 IF jsonl_path.stem = session_id THEN best
                 ELSE IF StartsWithAgent(jsonl_path.stem) THEN best
                 ELSE IF start_time = 0 THEN best
                 ELSE IF 0 < delta /\ delta < ContinuationCeiling
                         /\ delta < best.delta
                      THEN IF src_cwd # NONE /\ GetSessionCwd(jsonl_path) # src_cwd
                           THEN best
                           ELSE [match |-> jsonl_path.stem, delta |-> delta]
                      ELSE best
         IN ScanLoop(session_id, files, i + 1, compaction_time, src_cwd, next)

\* The orders in which glob may list the files S.
RECURSIVE Listings(_)
Listings(S) ==
    IF S = {} THEN {<<>>}
    ELSE UNION {{<<f>> \o l : l \in Listings(S \ {f})} : f \in S}

\* Mutant: a cached result is returned whatever the directory's mtime.
FindSessionContinuationKeep(session_id, files, compaction_timestamp, src_cwd, entry, dir_mtime) ==
    IF entry.present
    THEN {[ret |-> entry.value, cached |-> TRUE, scanned |-> FALSE,
           entry |-> entry]}
    ELSE IF ~Parseable(compaction_timestamp)
    THEN {[ret |-> NONE, cached |-> FALSE, scanned |-> FALSE, entry |-> entry]}
    ELSE {LET best_match ==
                  ScanLoop(session_id, listing, 1,
                           FromIsoFormat(compaction_timestamp), src_cwd,
                           [match |-> NONE, delta |-> Infinity])
          IN [ret |-> best_match, cached |-> FALSE, scanned |-> TRUE,
              entry |-> [present |-> TRUE, value |-> best_match,
                         mtime |-> dir_mtime]]
          : listing \in Listings(files)}

\* find_session_continuation(session_id, project_dir, compaction_timestamp) with
\* the files of project_dir, the cache entry of session_id and the directory's
\* mtime: the outcomes the call can have (one per order in which glob may list
\* the files), each the value returned and the cache entry left behind.
FindSessionContinuation(session_id, files, compaction_timestamp, src_cwd, entry, dir_mtime) ==
    IF entry.present /\ dir_mtime <= entry.mtime
    THEN {[ret |-> entry.value, cached |-> TRUE, scanned |-> FALSE,
           entry |-> entry]}
    ELSE IF ~Parseable(compaction_timestamp)
    THEN {[ret |-> NONE, cached |-> FALSE, scanned |-> FALSE, entry |-> entry]}
    ELSE {LET best_match ==
                  ScanLoop(session_id, listing, 1,
                           FromIsoFormat(compaction_timestamp), src_cwd,
                           [match |-> NONE, delta |-> Infinity])
          IN [ret |-> best_match, cached |-> FALSE, scanned |-> TRUE,
              entry |-> [present |-> TRUE, value |-> best_match,
                         mtime |-> dir_mtime]]
          : listing \in Listings(files)}

\* Bounds and inputs of the continuation specification.
MaxSiblings == 2
SiblingStems == {SessionNames[i] : i \in 2..(MaxSiblings + 1)} \cup {AgentStem}
SiblingStarts == {100, 110, 160}
CompactionTimestamps == {BadTs, IsoTs(100), IsoTs(105)}
SourceFile == [stem |-> SourceId, first_ts |-> IsoTs(110), cwd |-> CwdA]

\* A call of find_session_continuation for the source session.
FindCall ==
    \E ct \in CompactionTimestamps :
        \E r \in FindSessionContinuation(SourceId, d_files, ct, source_cwd,
                                         continuation_cache, d_mtime) :
            /\ continuation_cache' = r.entry
            /\ f_ts' = ct
            /\ f_scanned' = r.scanned
            /\ f_ret' = r.ret
            /\ f_cached' = r.cached
            /\ f_before' = continuation_cache
            /\ f_pc' = "returned"
            /\ UNCHANGED <<d_mtime, d_files, source_cwd>>

\* A new transcript appears in the directory, with or without a first
\* timestamped line; the directory's mtime advances.
CreateSibling ==
    \E stem \in SiblingStems, ts \in {NoTs} \cup {IsoTs(t) : t \in SiblingStarts},
       cwd \in {CwdA, CwdB} :
        /\ \A f \in d_files : f.stem # stem
        /\ StartsWithAgent(stem) => (cwd = CwdA /\ ts = IsoTs(110))
        /\ d_files' = d_files \cup {[stem |-> stem, first_ts |-> ts, cwd |-> cwd]}
        /\ d_mtime' = d_mtime + 1
        /\ f_ts' = NoTs
        /\ f_scanned' = FALSE
        /\ f_ret' = NONE
        /\ f_cached' = FALSE
        /\ f_before' = NoContinuationEntry
        /\ f_pc' = "idle"
        /\ UNCHANGED <<source_cwd, continuation_cache>>

\* The first timestamped line is appended to a transcript that had none; an
\* append leaves the directory's mtime alone.
WriteFirstLine ==
    \E f \in d_files, t \in SiblingStarts :
        /\ f.first_ts = NoTs
        /\ d_files' = (d_files \ {f}) \cup {[f EXCEPT !.first_ts = IsoTs(t)]}
        /\ f_ts' = NoTs
        /\ f_scanned' = FALSE
        /\ f_ret' = NONE
        /\ f_cached' = FALSE
        /\ f_before' = NoContinuationEntry
        /\ f_pc' = "idle"
        /\ UNCHANGED <<d_mtime, source_cwd, continuation_cache>>

\* A line carrying cwd is appended to the source transcript, which had none
\* among its first lines; the directory's mtime stays.
WriteSourceCwd ==
    /\ source_cwd = NONE
    /\ source_cwd' = CwdA
    /\ d_files' = {IF f.stem = SourceId THEN [f EXCEPT !.cwd = CwdA] ELSE f
                   : f \in d_files}
    /\ f_ts' = NoTs
    /\ f_scanned' = FALSE
    /\ f_ret' = NONE
    /\ f_cached' = FALSE
    /\ f_before' = NoContinuationEntry
    /\ f_pc' = "idle"
    /\ UNCHANGED <<d_mtime, continuation_cache>>

ContIdle ==
    /\ d_mtime = 1
    /\ d_files = {[SourceFile EXCEPT !.cwd = source_cwd]}
    /\ continuation_cache = NoContinuationEntry
    /\ f_ts = NoTs
    /\ f_scanned = FALSE
    /\ f_ret = NONE
    /\ f_cached = FALSE
    /\ f_before = NoContinuationEntry
    /\ f_pc = "idle"

ContInit ==
    /\ source_cwd \in {NONE, CwdA}
    /\ ContIdle

ContOff ==
    /\ source_cwd = NONE
    /\ ContIdle

\* A sibling qualifies for compaction time t: it is neither the source nor a
\* background-worker transcript, its start is more than 0 s and less than the
\* ceiling after t, and its cwd is the source's whenever that is known.
Qualifies(f, t) ==
    /\ f.stem # SourceId
    /\ ~StartsWithAgent(f.stem)
    /\ Parseable(f.first_ts)
    /\ 0 < FromIsoFormat(f.first_ts) - t
    /\ FromIsoFormat(f.first_ts) - t < ContinuationCeiling
    /\ (source_cwd # NONE => f.cwd = source_cwd)

\* The answer C10 asks for, given the directory as the call found it.
IsEarliestQualifying(ret, t) ==
    LET Q == {f \in d_files : Qualifies(f, t)}
    IN IF Q = {} THEN ret = NONE
       ELSE \E f \in Q : /\ ret = f.stem
                         /\ \A g \in Q : FromIsoFormat(f.first_ts)
                                            <= FromIsoFormat(g.first_ts)

\* C10: a call returns no continuation when no sibling starts within the
\* ceiling after the compaction timestamp, the single qualifying sibling when
\* there is one, and the earliest-starting qualifying sibling when there are
\* several.
C10_EarliestQualifying ==
    (f_pc = "returned" /\ Parseable(f_ts)) =>
        IsEarliestQualifying(f_ret, FromIsoFormat(f_ts))

\* C10, for the calls that list the directory: the scan itself selects as
\* stated.
C10_ScanEarliestQualifying ==
    (f_pc = "returned" /\ f_scanned) =>
        IsEarliestQualifying(f_ret, FromIsoFormat(f_ts))

\* C10, scan: a scan chose the earlier of two qualifying siblings.
C10_ScanWitness ==
    /\ f_pc = "returned"
    /\ f_scanned
    /\ \E f, g \in d_files :
          /\ Qualifies(f, FromIsoFormat(f_ts))
          /\ Qualifies(g, FromIsoFormat(f_ts))
          /\ FromIsoFormat(f.first_ts) < FromIsoFormat(g.first_ts)
          /\ f_ret = f.stem

\* C10 divergence: a call answered from the cache returned a sibling that does
\* not start within the ceiling after the compaction timestamp it was given.
C10_StaleAnswer ==
    /\ f_pc = "returned"
    /\ ~f_scanned
    /\ Parseable(f_ts)
    /\ f_ret # NONE
    /\ \A f \in d_files : ~Qualifies(f, FromIsoFormat(f_ts))

\* A sibling the scan considers at all: not the source, not a background-worker
\* transcript, with a start timestamp, and of the source's cwd when that is
\* known.
Eligible(f) ==
    /\ f.stem # SourceId
    /\ ~StartsWithAgent(f.stem)
    /\ Parseable(f.first_ts)
    /\ (source_cwd # NONE => f.cwd = source_cwd)

\* start time minus compaction time, for the last call.
DeltaOf(f) == FromIsoFormat(f.first_ts) - FromIsoFormat(f_ts)

\* C11: a scan finds a continuation exactly when some sibling it considers
\* starts a non-negative number of seconds, below the ceiling, after the
\* compaction time; so a sibling starting at the compaction time qualifies.
C11_NonNegativeDeltaQualifies ==
    (f_pc = "returned" /\ f_scanned) =>
        ( f_ret # NONE <=>
            \E f \in d_files : /\ Eligible(f)
                               /\ 0 <= DeltaOf(f)
                               /\ DeltaOf(f) < ContinuationCeiling )

\* C11, as the code has it: a scan finds a continuation exactly when some
\* sibling it considers starts more than 0 s and less than the ceiling after
\* the compaction time, and the sibling returned is such a one.
C11_PositiveDeltaQualifies ==
    (f_pc = "returned" /\ f_scanned) =>
        /\ f_ret # NONE <=>
              \E f \in d_files : /\ Eligible(f)
                                 /\ 0 < DeltaOf(f)
                                 /\ DeltaOf(f) < ContinuationCeiling
        /\ \A f \in d_files :
              f.stem = f_ret => (0 < DeltaOf(f) /\ DeltaOf(f) < ContinuationCeiling)

\* C11 divergence: a scan returned no continuation although a sibling it
\* considers starts exactly at the compaction time; another starts exactly at
\* the ceiling.
C11_ZeroDeltaRejected ==
    /\ f_pc = "returned"
    /\ f_scanned
    /\ f_ret = NONE
    /\ \E f \in d_files : Eligible(f) /\ DeltaOf(f) = 0
    /\ \E f \in d_files : Eligible(f) /\ DeltaOf(f) = ContinuationCeiling

\* The files of the directory that carry the stem the last call returned.
Returned == {f \in d_files : f.stem = f_ret}

\* C12: a call never returns the source session or a background-worker
\* transcript, and when the source's cwd can be determined it never returns a
\* sibling of another cwd.
C12_NeverSourceAgentOrOtherCwd ==
    f_pc = "returned" =>
        /\ f_ret # SourceId
        /\ ~StartsWithAgent(f_ret)
        /\ source_cwd # NONE => \A f \in Returned : f.cwd = source_cwd

\* C12, for the calls that list the directory.
C12_ScanNeverSourceAgentOrOtherCwd ==
    (f_pc = "returned" /\ f_scanned) =>
        /\ f_ret # SourceId
        /\ ~StartsWithAgent(f_ret)
        /\ source_cwd # NONE => \A f \in Returned : f.cwd = source_cwd

\* C12 divergence: with the source's cwd known, a call answered from the cache
\* returned a sibling of another cwd.
C12_OtherCwdReturned ==
    /\ f_pc = "returned"
    /\ ~f_scanned
    /\ source_cwd # NONE
    /\ \E f \in Returned : f.cwd # source_cwd

\* The directory's mtime had advanced past the mtime recorded with the entry
\* the last call found.
MtimeAdvanced == f_before.present /\ d_mtime > f_before.mtime

\* C13: a cached result is reused only while the directory's mtime has not
\* advanced past the mtime recorded with it; once it has advanced, the next
\* call lists the directory again.
C13_ReusedUntilMtimeAdvances ==
    f_pc = "returned" =>
        /\ f_cached => (f_before.present /\ ~MtimeAdvanced /\ f_ret = f_before.value)
        /\ MtimeAdvanced => f_scanned

\* C13, as the code has it: the same, the rescan being made when the compaction
\* timestamp parses; with one that does not parse the call returns no
\* continuation without listing the directory and leaves the entry in place.
C13_ReusedUntilMtimeAdvancesParsed ==
    f_pc = "returned" =>
        /\ f_cached => (f_before.present /\ ~MtimeAdvanced /\ f_ret = f_before.value)
        /\ (f_before.present /\ ~MtimeAdvanced) => f_cached
        /\ (MtimeAdvanced /\ Parseable(f_ts)) =>
              /\ f_scanned
              /\ continuation_cache = [present |-> TRUE, value |-> f_ret,
                                       mtime |-> d_mtime]
        /\ (MtimeAdvanced /\ ~Parseable(f_ts)) =>
              /\ ~f_scanned
              /\ ~f_cached
              /\ f_ret = NONE
              /\ continuation_cache = f_before

\* C13 witness: the directory's mtime had advanced since the result was cached
\* and the call listed the directory and returned another sibling.
C13_Witness ==
    /\ f_pc = "returned"
    /\ MtimeAdvanced
    /\ f_scanned
    /\ f_ret # f_before.value
    /\ f_ret # NONE

\* The results a scan of the directory as it stands gives for compaction
\* timestamp ct (one per order in which glob may list the files); with a
\* timestamp that does not parse the call returns no continuation.
FreshScanResults(ct) ==
    IF ~Parseable(ct) THEN {NONE}
    ELSE {ScanLoop(SourceId, listing, 1, FromIsoFormat(ct), source_cwd,
                   [match |-> NONE, delta |-> Infinity])
          : listing \in Listings(d_files)}

\* C35: while the directory's mtime has not advanced, a call answered from the
\* cache returns what a fresh scan with the same arguments would return,
\* whatever compaction timestamp it is called with.
C35_CachedEqualsFreshScan ==
    (f_pc = "returned" /\ f_cached) => f_ret \in FreshScanResults(f_ts)

\* C35 divergence: a call answered from the cache, the directory's mtime not
\* having advanced, returned a sibling although a fresh scan with its
\* compaction timestamp finds none.
C35_CachedDiffersFromFresh ==
    /\ f_pc = "returned"
    /\ f_cached
    /\ d_mtime <= f_before.mtime
    /\ Parseable(f_ts)
    /\ f_ret # NONE
    /\ FreshScanResults(f_ts) = {NONE}

\* The compaction timestamp recorded in the source transcript, with which the
\* callers ask for its continuation.
SourceCompactionTs == IsoTs(100)

\* The sibling of this stem is in the directory and is the only one that
\* qualifies for the source's compaction timestamp.
OnlyContinuation(stem) ==
    \E f \in d_files :
        /\ f.stem = stem
        /\ Qualifies(f, FromIsoFormat(SourceCompactionTs))
        /\ \A g \in d_files :
              Qualifies(g, FromIsoFormat(SourceCompactionTs)) => g = f

\* The cache entry of the source is one the next call will answer from.
EntryInForce == continuation_cache.present /\ d_mtime <= continuation_cache.mtime

\* C36: once a qualifying continuation transcript is in the directory, however
\* it came to be there, some later call returns it, unless the directory
\* changes so that it no longer is the continuation.
C36_AppearedIsEventuallyReturned ==
    \A stem \in SiblingStems :
        OnlyContinuation(stem) ~>
            ((f_pc = "returned" /\ f_ret = stem) \/ ~OnlyContinuation(stem))

\* C36, where no cached result is in force: the next scan returns the
\* continuation.
C36_ReturnedOnceRescanned ==
    \A stem \in SiblingStems :
        (OnlyContinuation(stem) /\ ~EntryInForce) ~>
            ((f_pc = "returned" /\ f_ret = stem) \/ ~OnlyContinuation(stem))

\* C36 divergence: the continuation is in the directory, and the entry in
\* force, cached by a scan made before the continuation's first timestamped
\* line was written, says there is none.
C36_MissInForce ==
    /\ \E stem \in SiblingStems : OnlyContinuation(stem)
    /\ EntryInForce
    /\ continuation_cache.value = NONE
    /\ f_pc = "returned"
    /\ f_ts = SourceCompactionTs
    /\ f_cached

-----------------------------------------------------------------------------
(* session_detector.py: extract_conversation *)

\* Bounds and inputs of the conversation specification.  RecursionLimit stands
\* for the interpreter's recursion limit.
MaxRecords == 2
RecursionLimit == 3
ConvStems == {SessionNames[1], SessionNames[2]}
ConvTimes == {100, 110}
ConvDirMtime == 1

\* The lines of a transcript: messages and compaction summaries, a summary with
\* or without a timestamp.
ConvRecords ==
    {[type |-> ty, timestamp |-> IsoTs(t)] : ty \in {"user", "summary"},
                                             t \in ConvTimes}
    \cup {[type |-> "summary", timestamp |-> NoTs]}

\* _extract_single_file_conversation: one message per user, assistant or
\* summary line, in file order.
ExtractSingleFileConversation(file) ==
    [i \in 1..Len(file.records) |->
        [role |-> IF file.records[i].type = "summary" THEN "system" ELSE "user",
         timestamp |-> file.records[i].timestamp,
         isCompaction |-> file.records[i].type = "summary",
         isContinuation |-> FALSE,
         session |-> file.stem,
         lineNumber |-> i - 1]]

\* for idx in range(len(messages) - 1, -1, -1): the position of the last
\* compaction message, 0 if there is none.
LastCompactionIdx(messages) ==
    LET C == {i \in 1..Len(messages) : messages[i].isCompaction}
    IN IF C = {} THEN 0 ELSE CHOOSE i \in C : \A j \in C : j <= i

\* The synthetic message inserted after the compaction.
ContinuationMarker(continuation_id, last_compaction_ts) ==
    [role |-> "system", timestamp |-> last_compaction_ts, isCompaction |-> FALSE,
     isContinuation |-> TRUE, session |-> continuation_id, lineNumber |-> -1]

\* messages.insert(insert_idx, x), insert_idx counted from 0.
Insert(messages, insert_idx, x) ==
    SubSeq(messages, 1, insert_idx) \o <<x>>
        \o SubSeq(messages, insert_idx + 1, Len(messages))

\* The first timestamp among the first lines of the file, as
\* get_session_start_timestamp reads it.
FirstTimestamp(file) ==
    LET T == {i \in 1..Len(file.records) : file.records[i].timestamp # NoTs}
    IN IF T = {} THEN NoTs
       ELSE file.records[CHOOSE i \in T : \A j \in T : i <= j].timestamp

\* What the scan reads of each transcript of the directory.
DirView(files) ==
    {[stem |-> f.stem, first_ts |-> FirstTimestamp(f), cwd |-> f.cwd] : f \in files}

\* return messages[-limit:] if limit > 0
ApplyLimit(messages, limit) ==
    IF limit > 0 /\ Len(messages) > limit
    THEN SubSeq(messages, Len(messages) - limit + 1, Len(messages))
    ELSE messages

\* Mutant: no marker is inserted.
ExtractFrameNoMarker(file, follow_continuations, files, cache) ==
    LET messages == ExtractSingleFileConversation(file)
        idx == LastCompactionIdx(messages)
        last_compaction_ts == IF idx = 0 THEN NoTs ELSE messages[idx].timestamp
    IN IF follow_continuations /\ messages # <<>> /\ last_compaction_ts # NoTs
       THEN {[messages |->
                 IF r.ret # NONE /\ (\E f \in files : f.stem = r.ret)
                 THEN messages
                 ELSE messages,
              next |-> r.ret,
              cache |-> [cache EXCEPT ![file.stem] = r.entry]]
             : r \in FindSessionContinuation(file.stem, DirView(files),
                        last_compaction_ts, file.cwd, cache[file.stem],
                        ConvDirMtime)}
       ELSE {[messages |-> messages, next |-> NONE, cache |-> cache]}

\* One call of extract_conversation up to its recursive call: the messages of
\* the file (with the marker when a continuation is found), the continuation
\* to extract next, NONE if none, and the cache left behind.
ExtractFrame(file, follow_continuations, files, cache) ==
    LET messages == ExtractSingleFileConversation(file)
        idx == LastCompactionIdx(messages)
        last_compaction_ts == IF idx = 0 THEN NoTs ELSE messages[idx].timestamp
    IN IF follow_continuations /\ messages # <<>> /\ last_compaction_ts # NoTs
       THEN {[messages |->
                 IF r.ret # NONE /\ (\E f \in files : f.stem = r.ret)
                 THEN Insert(messages, idx,
                             ContinuationMarker(r.ret, last_compaction_ts))
                 ELSE messages,
              next |-> r.ret,
              cache |-> [cache EXCEPT ![file.stem] = r.entry]]
             : r \in FindSessionContinuation(file.stem, DirView(files),
                        last_compaction_ts, file.cwd, cache[file.stem],
                        ConvDirMtime)}
       ELSE {[messages |-> messages, next |-> NONE, cache |-> cache]}

FileOf(stem) == CHOOSE f \in c_files : f.stem = stem

NoArg == [file |-> NONE, limit |-> 0, follow |-> FALSE]

ConvIdle ==
    /\ c_cache = [stem \in ConvStems |-> NoContinuationEntry]
    /\ c_arg = NoArg
    /\ c_cur = NONE
    /\ c_acc = <<>>
    /\ c_visits = <<>>
    /\ c_out = <<>>

\* Two transcripts of one project directory, the first with a known or an
\* unknown cwd, the second of the same or of another cwd.
ConvInit ==
    /\ \E ra, rb \in SeqsUpTo(ConvRecords, MaxRecords), ca \in {NONE, CwdA},
          cb \in {CwdA, CwdB} :
          c_files = {[stem |-> SessionNames[1], cwd |-> ca, records |-> ra],
                     [stem |-> SessionNames[2], cwd |-> cb, records |-> rb]}
    /\ ConvIdle
    /\ c_pc = "ready"

ConvOff ==
    /\ c_files = {}
    /\ ConvIdle
    /\ c_pc = "idle"

\* extract_conversation(jsonl_file, limit, follow_continuations) is called.
ExtractConversationCall ==
    /\ c_pc = "ready"
    /\ \E f \in c_files, limit \in {0, 1}, follow \in BOOLEAN :
          /\ c_arg' = [file |-> f.stem, limit |-> limit, follow |-> follow]
          /\ c_cur' = f.stem
    /\ c_pc' = "running"
    /\ UNCHANGED <<c_files, c_cache, c_acc, c_visits, c_out>>

\* The innermost call runs: it extracts its file and either calls itself on
\* the continuation or returns, and then every enclosing call returns; when
\* the recursion limit is reached the call raises RecursionError.
ExtractConversationFrame ==
    /\ c_pc = "running"
    /\ IF Len(c_visits) >= RecursionLimit
       THEN /\ c_pc' = "error"
            /\ UNCHANGED <<c_cache, c_cur, c_acc, c_visits, c_out>>
       ELSE \E o \in ExtractFrame(FileOf(c_cur), c_arg.follow, c_files, c_cache) :
               /\ c_cache' = o.cache
               /\ c_visits' = Append(c_visits, c_cur)
               /\ c_acc' = c_acc \o o.messages
               /\ IF o.next # NONE /\ (\E f \in c_files : f.stem = o.next)
                  THEN /\ c_cur' = o.next
                       /\ c_pc' = "running"
                       /\ UNCHANGED c_out
                  ELSE /\ c_cur' = NONE
                       /\ c_pc' = "done"
                       /\ c_out' = ApplyLimit(c_acc \o o.messages, c_arg.limit)
    /\ UNCHANGED <<c_files, c_arg>>

\* The transcript the call was made for, and the other one.
ArgFile == FileOf(c_arg.file)
OtherFile == CHOOSE f \in c_files : f.stem # c_arg.file

\* The timestamp of the last compaction message of a transcript, NoTs if it has
\* none.
LastCompactionTs(file) ==
    LET messages == ExtractSingleFileConversation(file)
        idx == LastCompactionIdx(messages)
    IN IF idx = 0 THEN NoTs ELSE messages[idx].timestamp

\* The transcript ends with a compaction event that carries a timestamp.
EndsWithCompaction(file) ==
    /\ file.records # <<>>
    /\ file.records[Len(file.records)].type = "summary"
    /\ file.records[Len(file.records)].timestamp # NoTs

\* b starts 10 s after the compaction that ends a.
StartsTenAfter(a, b) ==
    /\ EndsWithCompaction(a)
    /\ FirstTimestamp(b) # NoTs
    /\ FromIsoFormat(FirstTimestamp(b)) = FromIsoFormat(LastCompactionTs(a)) + 10

\* A's messages, one marker, B's messages.
Stitched(a, b) ==
    ExtractSingleFileConversation(a)
        \o <<ContinuationMarker(b.stem, LastCompactionTs(a))>>
        \o ExtractSingleFileConversation(b)

CwdAgrees(a, b) == a.cwd # NONE => b.cwd = a.cwd

\* No continuation is found for b: it has no compaction event with a
\* timestamp, or a does not start within the ceiling after it.
NoContinuationOf(b, a) ==
    \/ LastCompactionTs(b) = NoTs
    \/ ~CwdAgrees(b, a)
    \/ FirstTimestamp(a) = NoTs
    \/ FromIsoFormat(FirstTimestamp(a)) - FromIsoFormat(LastCompactionTs(b)) <= 0
    \/ FromIsoFormat(FirstTimestamp(a)) - FromIsoFormat(LastCompactionTs(b))
          >= ContinuationCeiling

C15_EachSessionVisitedOnce ==
    /\ c_pc # "error"
    /\ \A i, j \in 1..Len(c_visits) : c_visits[i] = c_visits[j] => i = j

\* C15 divergence: the continuation links form a cycle and the extraction went
\* round it until the recursion limit ended it.
C15_CycleFollowed ==
    /\ c_pc = "error"
    /\ \E i, j \in 1..Len(c_visits) : i < j /\ c_visits[i] = c_visits[j]

\* The last compaction event of the transcript is followed by further
\* messages.
CompactionNotLast(file) ==
    /\ LastCompactionIdx(ExtractSingleFileConversation(file)) > 0
    /\ LastCompactionIdx(ExtractSingleFileConversation(file)) < Len(file.records)

\* C16: a transcript whose last compaction event is followed by further
\* messages is returned as it is, without a marker and without another
\* session's messages.
C16_OnlyWhenEndsWithCompaction ==
    (c_pc \in {"done", "error"} /\ c_arg.limit = 0 /\ CompactionNotLast(ArgFile))
    => (c_pc = "done" /\ c_out = ExtractSingleFileConversation(ArgFile))

\* C16 divergence: the compaction was followed by a message and the extraction
\* returned a marker and the other transcript's messages all the same.
C16_FollowedAfterLaterMessages ==
    /\ c_pc = "done"
    /\ c_arg.limit = 0
    /\ CompactionNotLast(ArgFile)
    /\ \E i \in 1..Len(c_out) : c_out[i].isContinuation
    /\ \E i \in 1..Len(c_out) : c_out[i].session # c_arg.file /\ ~c_out[i].isContinuation

-----------------------------------------------------------------------------
(* session_detector.py: concurrent pollers on the shared caches.  The module  *)
(* holds no lock around _metadata_cache; a poller can be preempted between    *)
(* any two accesses.                                                          *)

\* CACHE_CLEANUP_INTERVAL and max_cache_age of cleanup_stale_caches
CACHE_CLEANUP_INTERVAL == 3600
MaxCacheAge == 3600

\* Bounds and inputs of the concurrency specification.
MaxAppends == 1
StartClock == 3600
MaxConcClock == 10800
ConcTicks == {3600}
Pollers == {1, 2}
ConcPaths == {SessionNames[1], SessionNames[2]}

\* A poller between polls.
PollerIdle ==
    [pc |-> "idle", path |-> NONE, mtime |-> -1, data |-> NoSession,
     now |-> 0, todo |-> {}, size |-> 0, stale |-> {}, error |-> NONE]

\* The paths that have an entry: the keys of the dict.
CacheKeys(cache) == {p \in DOMAIN cache : cache[p] # NoEntry}

\* _last_cache_cleanup starts at 0.0 and time.time() far above it: the first
\* poll sweeps.
ConcInit ==
    /\ k_clock = StartClock
    /\ k_files = [p \in ConcPaths |-> [mtime |-> 0, version |-> 0]]
    /\ k_cache = [p \in ConcPaths |-> NoEntry]
    /\ k_last_cleanup = 0
    /\ k_thr = [t \in Pollers |-> PollerIdle]
    /\ k_stored = {}

ConcOff ==
    /\ k_clock = 0
    /\ k_files = [p \in ConcPaths |-> [mtime |-> 0, version |-> 0]]
    /\ k_cache = [p \in ConcPaths |-> NoEntry]
    /\ k_last_cleanup = 0
    /\ k_thr = [t \in Pollers |-> [PollerIdle EXCEPT !.pc = "off"]]
    /\ k_stored = {}

\* A poll reaches cleanup_stale_caches: now = time.time() and the interval
\* guard.
CleanupStart(t) ==
    /\ k_thr[t].pc = "idle"
    /\ IF k_clock - k_last_cleanup < CACHE_CLEANUP_INTERVAL
       THEN k_thr' = [k_thr EXCEPT ![t].pc = "extract"]
       ELSE k_thr' = [k_thr EXCEPT ![t].pc = "sweep_begin", ![t].now = k_clock]
    /\ UNCHANGED <<k_clock, k_files, k_cache, k_last_cleanup, k_stored>>

\* _last_cache_cleanup = now, and the iteration over _metadata_cache.items()
\* begins.
CleanupBegin(t) ==
    /\ k_thr[t].pc = "sweep_begin"
    /\ k_last_cleanup' = k_thr[t].now
    /\ k_thr' = [k_thr EXCEPT ![t].pc = "sweep_iter",
                              ![t].todo = CacheKeys(k_cache),
                              ![t].size = Cardinality(CacheKeys(k_cache)),
                              ![t].stale = {}]
    /\ UNCHANGED <<k_clock, k_files, k_cache, k_stored>>

\* One step of the iteration: the dict iterator raises RuntimeError when the
\* dict's size is not the size it had when the iteration began; otherwise the
\* next item is tested for staleness.
CleanupIterate(t) ==
    /\ k_thr[t].pc = "sweep_iter"
    /\ IF Cardinality(CacheKeys(k_cache)) # k_thr[t].size
       THEN k_thr' = [k_thr EXCEPT ![t].pc = "error", ![t].error = "RuntimeError"]
       ELSE IF k_thr[t].todo = {}
       THEN k_thr' = [k_thr EXCEPT ![t].pc = "sweep_del"]
       ELSE \E p \in k_thr[t].todo :
               k_thr' = [k_thr EXCEPT
                            ![t].todo = @ \ {p},
                            ![t].stale =
                               IF k_cache[p] # NoEntry
                                  /\ k_thr[t].now - k_cache[p].cache_time > MaxCacheAge
                               THEN @ \cup {p} ELSE @]
    /\ UNCHANGED <<k_clock, k_files, k_cache, k_last_cleanup, k_stored>>

\* for path in stale_paths: del _metadata_cache[path]; KeyError when the entry
\* is gone.
CleanupDelete(t) ==
    /\ k_thr[t].pc = "sweep_del"
    /\ IF k_thr[t].stale = {}
       THEN /\ k_thr' = [k_thr EXCEPT ![t].pc = "extract", ![t].size = 0,
                                      ![t].now = 0]
            /\ UNCHANGED k_cache
       ELSE \E p \in k_thr[t].stale :
               IF k_cache[p] = NoEntry
               THEN /\ k_thr' = [k_thr EXCEPT ![t].pc = "error",
                                              ![t].error = "KeyError"]
                    /\ UNCHANGED k_cache
               ELSE /\ k_cache' = [k_cache EXCEPT ![p] = NoEntry]
                    /\ k_thr' = [k_thr EXCEPT ![t].stale = @ \ {p}]
    /\ UNCHANGED <<k_clock, k_files, k_last_cleanup, k_stored>>

\* extract_jsonl_metadata(path) up to the cache test: now, stat, and the
\* cached dict on a hit, which ends the poll.
ExtractStat(t) ==
    /\ k_thr[t].pc = "extract"
    /\ \E p \in ConcPaths :
          IF CacheHit(k_cache[p], k_files[p].mtime, k_clock)
          THEN k_thr' = [k_thr EXCEPT ![t] = PollerIdle]
          ELSE k_thr' = [k_thr EXCEPT ![t].pc = "read", ![t].path = p,
                                      ![t].mtime = k_files[p].mtime]
    /\ UNCHANGED <<k_clock, k_files, k_cache, k_last_cleanup, k_stored>>

\* The file is opened and read: the metadata is what the file holds now, under
\* the mtime stat'ed before.
ExtractRead(t) ==
    /\ k_thr[t].pc = "read"
    /\ k_thr' = [k_thr EXCEPT
                    ![t].pc = "store",
                    ![t].data = [sessionId |-> k_thr[t].path, cwd |-> CwdA,
                                 contents |-> k_files[k_thr[t].path].version,
                                 file_mtime |-> k_thr[t].mtime]]
    /\ UNCHANGED <<k_clock, k_files, k_cache, k_last_cleanup, k_stored>>

\* _metadata_cache[path_str] = (current_mtime, time.time(), metadata); the
\* poll ends.
ExtractStore(t) ==
    /\ k_thr[t].pc = "store"
    /\ k_cache' = [k_cache EXCEPT ![k_thr[t].path] =
                      [mtime |-> k_thr[t].mtime, cache_time |-> k_clock,
                       data |-> k_thr[t].data]]
    /\ k_stored' = k_stored \cup {[path |-> k_thr[t].path, mtime |-> k_thr[t].mtime,
                                   data |-> k_thr[t].data]}
    /\ k_thr' = [k_thr EXCEPT ![t] = PollerIdle]
    /\ UNCHANGED <<k_clock, k_files, k_last_cleanup>>

\* The session appends to its transcript; the mtime moves on.
AppendLine ==
    \E p \in {SessionNames[1]} :
        /\ k_files[p].version < MaxAppends
        /\ k_files' = [k_files EXCEPT ![p] = [mtime |-> @.mtime + 1,
                                              version |-> @.version + 1]]
        /\ UNCHANGED <<k_clock, k_cache, k_last_cleanup, k_thr, k_stored>>

\* Time passes.
ConcTick ==
    \E d \in ConcTicks :
        /\ k_clock + d <= MaxConcClock
        /\ k_clock' = k_clock + d
        /\ UNCHANGED <<k_files, k_cache, k_last_cleanup, k_thr, k_stored>>

\* C17: every poll of two overlapping pollers completes without error.
C17_PollsCompleteWithoutError ==
    \A t \in Pollers : k_thr[t].pc # "error"

\* C17 divergence: a sweep was iterating over the cache when the other poller
\* stored an entry for a new path, and the sweep raised RuntimeError.
C17_SweepBrokenByInsert ==
    \E t \in Pollers :
        /\ k_thr[t].pc = "error"
        /\ k_thr[t].error = "RuntimeError"
        /\ Cardinality(CacheKeys(k_cache)) > k_thr[t].size

\* C18: any two entries stored for one path with the same mtime hold equal
\* metadata.
C18_SameMtimeSameMetadata ==
    \A a, b \in k_stored :
        (a.path = b.path /\ a.mtime = b.mtime) => a.data = b.data

\* C18 divergence: two pollers stored, for one path and one mtime, metadata
\* read before and after an append.
C18_SameMtimeOtherMetadata ==
    \E a, b \in k_stored :
        /\ a.path = b.path
        /\ a.mtime = b.mtime
        /\ a.data.contents < b.data.contents

-----------------------------------------------------------------------------
(* session_detector.py: get_claude_processes, get_process_cwd,                *)
(* get_process_start_time and get_claude_processes_cached.                    *)

PROCESS_CACHE_TTL == 2
\* timeout=5 of the lsof and `ps -p` calls
SubprocessTimeout == 5
\* a subprocess.run call without a timeout argument
NoTimeout == -1

\* Bounds and inputs of the discovery specification.
MaxDiscClock == 8
DiscPids == {1, 2}
\* Every process was started at second 0: `ps -o etimes=` prints the clock.
Etimes(now) == now

\* _process_cache = None
NoProcessCache == [present |-> FALSE, time |-> 0, processes |-> <<>>]
NoDiscCall ==
    [pc |-> "idle", now |-> 0, lines |-> <<>>, todo |-> <<>>, cwd |-> NONE,
     processes |-> <<>>, failed |-> {}]
NoLast ==
    [kind |-> "none", now |-> 0, before |-> NoProcessCache, ret |-> <<>>,
     lines |-> <<>>, failed |-> {}]

\* The pids of a ps listing, in the order of its lines.
RECURSIVE PsLines(_)
PsLines(pids) ==
    IF pids = {} THEN <<>>
    ELSE LET p == CHOOSE x \in pids : \A y \in pids : x <= y
         IN <<p>> \o PsLines(pids \ {p})

\* How a subprocess.run call ends: with output, with an exception (the
\* command is missing, the fork fails), or with TimeoutExpired.
Outcomes == {"ok", "error", "timeout"}

\* Mutant: a failed lsof leaves a directory in the field.
GetProcessCwdKeepsValue(pid, outcome, os) ==
    IF pid \in os \/ outcome # "ok" THEN CwdA ELSE NONE
\* get_process_cwd(pid): the last field of lsof's line for the pid; None when
\* subprocess.run raised or printed no such line.
GetProcessCwd(pid, outcome, os) ==
    IF outcome # "ok" THEN NONE
    ELSE IF pid \in os THEN CwdA ELSE NONE

\* get_process_start_time(pid): time.time() - etimes; None when
\* subprocess.run raised or the output is no integer.
GetProcessStartTime(pid, outcome, os, now) ==
    IF outcome # "ok" THEN NONE
    ELSE IF pid \in os THEN now - Etimes(now) ELSE NONE

\* The seconds a subprocess.run call with timeout=5 takes.
Elapsed(outcome) == IF outcome = "timeout" THEN SubprocessTimeout ELSE 0

\* The cache never expires.
ProcessCacheFreshForever(cache, now) ==
    cache.present
\* if _process_cache and (now - _process_cache[0]) < PROCESS_CACHE_TTL
ProcessCacheFresh(cache, now) ==
    cache.present /\ (now - cache.time) < PROCESS_CACHE_TTL

DiscInit ==
    /\ g_clock = 0
    /\ g_os \in SUBSET DiscPids
    /\ g_process_cache = NoProcessCache
    /\ g_call = NoDiscCall
    /\ g_invoked = {}
    /\ g_last = NoLast

DiscOff ==
    /\ g_clock = 0
    /\ g_os = {}
    /\ g_process_cache = NoProcessCache
    /\ g_call = [NoDiscCall EXCEPT !.pc = "off"]
    /\ g_invoked = {}
    /\ g_last = NoLast

\* get_claude_processes_cached up to the cache test: a hit returns the cached
\* list, a miss enters get_claude_processes, whose first statement runs
\* `ps aux`.
CachedCall ==
    /\ g_call.pc = "idle"
    /\ IF ProcessCacheFresh(g_process_cache, g_clock)
       THEN /\ g_last' = [kind |-> "hit", now |-> g_clock,
                          before |-> g_process_cache,
                          ret |-> g_process_cache.processes,
                          lines |-> <<>>, failed |-> {}]
            /\ UNCHANGED <<g_call, g_invoked>>
       ELSE /\ g_call' = [NoDiscCall EXCEPT !.pc = "ps_aux", !.now = g_clock]
            /\ g_invoked' = {[cmd |-> "ps aux", timeout |-> NoTimeout]}
            /\ g_last' = NoLast
    /\ UNCHANGED <<g_clock, g_os, g_process_cache>>

\* The end of get_claude_processes and of the cached call:
\* _process_cache = (now, processes); return processes.
DiscReturn(lines, procs, failed) ==
    /\ g_process_cache' = [present |-> TRUE, time |-> g_call.now,
                           processes |-> procs]
    /\ g_last' = [kind |-> "miss", now |-> g_call.now,
                  before |-> g_process_cache, ret |-> procs,
                  lines |-> lines, failed |-> failed]
    /\ g_call' = NoDiscCall
    /\ g_invoked' = {}

\* After one process is handled: the next pid's lsof, or the return.
DiscAdvance(lines, todo, procs, failed) ==
    IF todo = <<>>
    THEN DiscReturn(lines, procs, failed)
    ELSE /\ g_call' = [g_call EXCEPT !.pc = "lsof", !.lines = lines,
                                     !.todo = todo, !.cwd = NONE,
                                     !.processes = procs, !.failed = failed]
         /\ g_invoked' = g_invoked \cup {[cmd |-> "lsof", timeout |-> SubprocessTimeout]}
         /\ UNCHANGED <<g_process_cache, g_last>>

\* `ps aux` completes and its lines are parsed, or it never completes: no
\* timeout ends the wait.
PsAux ==
    /\ g_call.pc = "ps_aux"
    /\ \E hangs \in BOOLEAN :
          IF hangs
          THEN /\ g_call' = [g_call EXCEPT !.pc = "hung"]
               /\ UNCHANGED <<g_process_cache, g_invoked, g_last>>
          ELSE DiscAdvance(PsLines(g_os), PsLines(g_os), <<>>, {})
    /\ UNCHANGED <<g_clock, g_os>>

\* get_process_cwd(pid): lsof answers, raises, or the timeout expires after
\* SubprocessTimeout seconds; the exception handler returns None.
Lsof ==
    /\ g_call.pc = "lsof"
    /\ \E outcome \in Outcomes :
          LET pid == Head(g_call.todo) IN
          /\ g_clock + Elapsed(outcome) <= MaxDiscClock
          /\ g_clock' = g_clock + Elapsed(outcome)
          /\ g_call' = [g_call EXCEPT
                           !.pc = "ps_p",
                           !.cwd = GetProcessCwd(pid, outcome, g_os),
                           !.failed = IF outcome = "ok" THEN @
                                      ELSE @ \cup {[pid |-> pid, field |-> "cwd"]}]
    /\ g_invoked' = g_invoked \cup {[cmd |-> "ps -p", timeout |-> SubprocessTimeout]}
    /\ UNCHANGED <<g_os, g_process_cache, g_last>>

\* get_process_start_time(pid) and processes.append(...): `ps -p` answers,
\* raises, or the timeout expires; on a failure start_time is None.
PsP ==
    /\ g_call.pc = "ps_p"
    /\ \E outcome \in Outcomes :
          LET pid == Head(g_call.todo)
              after == g_clock + Elapsed(outcome)
              proc == [pid |-> pid, cwd |-> g_call.cwd,
                       start_time |-> GetProcessStartTime(pid, outcome, g_os, after)]
              failed == IF outcome = "ok" THEN g_call.failed
                        ELSE g_call.failed
                                \cup {[pid |-> pid, field |-> "start_time"]}
          IN /\ after <= MaxDiscClock
             /\ g_clock' = after
             /\ DiscAdvance(g_call.lines, Tail(g_call.todo),
                            Append(g_call.processes, proc), failed)
    /\ UNCHANGED g_os

\* A claude process starts or exits.
OsChange ==
    /\ \E pid \in DiscPids :
          g_os' = IF pid \in g_os THEN g_os \ {pid} ELSE g_os \cup {pid}
    /\ g_last' = NoLast
    /\ UNCHANGED <<g_clock, g_process_cache, g_call, g_invoked>>

\* A second passes.
DiscTick ==
    /\ g_clock < MaxDiscClock
    /\ g_clock' = g_clock + 1
    /\ g_last' = NoLast
    /\ UNCHANGED <<g_os, g_process_cache, g_call, g_invoked>>

\* C19: every external command discovery invokes runs under a hard timeout,
\* so no discovery call waits without end on a command.
C19_EveryCommandUnderTimeout ==
    /\ \A c \in g_invoked : c.timeout # NoTimeout
    /\ g_call.pc # "hung"

\* C19 divergence: discovery waits without end on `ps aux`, which it invoked
\* without a timeout.
C19_DiscoveryHung ==
    /\ g_call.pc = "hung"
    /\ [cmd |-> "ps aux", timeout |-> NoTimeout] \in g_invoked

\* C19, for the per-process commands: lsof and `ps -p` run under the 5 s
\* timeout.
C19_PerProcessCommandsUnderTimeout ==
    \A c \in g_invoked :
        c.cmd \in {"lsof", "ps -p"} => c.timeout = SubprocessTimeout

\* C20: a returned call made less than PROCESS_CACHE_TTL after the time stored
\* with the cached list returned that list, invoked no command and left the
\* cache alone; a returned call made with no cache or at least the TTL after
\* that time ran discovery and replaced the cache by (its own time, the list
\* it discovered), so two discoveries start at least the TTL apart.
C20_DiscoveryOncePerTtlWindow ==
    /\ g_last.kind = "hit" =>
          /\ g_last.before.present
          /\ g_last.now - g_last.before.time < PROCESS_CACHE_TTL
          /\ g_last.ret = g_last.before.processes
          /\ g_process_cache = g_last.before
          /\ g_call.pc = "idle"
          /\ g_invoked = {}
    /\ g_last.kind = "miss" =>
          /\ g_last.before.present =>
                g_last.now - g_last.before.time >= PROCESS_CACHE_TTL
          /\ g_process_cache = [present |-> TRUE, time |-> g_last.now,
                                processes |-> g_last.ret]

\* C20 witness: a call made once the TTL had elapsed ran discovery and
\* replaced the cached list by a different one.
C20_Witness ==
    /\ g_last.kind = "miss"
    /\ g_last.before.present
    /\ g_last.ret # g_last.before.processes
    /\ g_process_cache.processes = g_last.ret

\* C31: a discovery that returned has one record per line of the listing, in
\* the order of the lines, whatever failed on the way; the working directory
\* is None in the record of a process whose lsof call failed (error or
\* timeout), and so is the start time of one whose `ps -p` call failed.
C31_FailedFieldIsNone ==
    g_last.kind = "miss" =>
        /\ Len(g_last.ret) = Len(g_last.lines)
        /\ \A i \in 1..Len(g_last.ret) :
              /\ g_last.ret[i].pid = g_last.lines[i]
              /\ [pid |-> g_last.lines[i], field |-> "cwd"] \in g_last.failed
                    => g_last.ret[i].cwd = NONE
              /\ [pid |-> g_last.lines[i], field |-> "start_time"] \in g_last.failed
                    => g_last.ret[i].start_time = NONE

\* C31 witness: of two processes the first lost its working directory to a
\* failed lsof and its start time to a failed `ps -p`, and the second, for
\* which no call failed, was returned with its working directory.
C31_Witness ==
    /\ g_last.kind = "miss"
    /\ Len(g_last.ret) = 2
    /\ g_last.failed = {[pid |-> g_last.lines[1], field |-> "cwd"],
                        [pid |-> g_last.lines[1], field |-> "start_time"]}
    /\ g_last.ret[1].cwd = NONE
    /\ g_last.ret[1].start_time = NONE
    /\ g_last.ret[2].pid = g_last.lines[2]
    /\ g_last.ret[2].cwd = CwdA

-----------------------------------------------------------------------------
(* session_detector.py: cleanup_stale_caches as get_all_active_state_files    *)
(* calls it, one call after another.                                          *)

\* Bounds and inputs of the sweep specification.
SweepStep == 1800
MaxSweepClock == 14400
SweepPaths == {SessionNames[1], SessionNames[2]}
SweepSids == {SessionNames[1], SessionNames[2]}
\* Entries are stored early enough for their age to pass the maximum before
\* the clock stops.
LastStoreClock == MaxSweepClock - (CACHE_CLEANUP_INTERVAL + MaxCacheAge)

\* current_state_files = None
NoStateFiles == {NONE}

\* The sweep runs on every call.
CleanupStaleCachesNoGuard(now, last, metadata, continuations, current_state_files) ==
    [ran |-> TRUE,
     last |-> now,
     metadata |-> [p \in DOMAIN metadata |->
                     IF metadata[p] # NoEntry
                        /\ now - metadata[p].cache_time > MaxCacheAge
                     THEN NoEntry ELSE metadata[p]],
     continuations |-> IF current_state_files = NoStateFiles THEN continuations
                       ELSE continuations \cap current_state_files]
\* cleanup_stale_caches(current_state_files): the interval guard, then the
\* age-based removal from _metadata_cache and the removal of the continuation
\* entries of sessions without a state file.
CleanupStaleCaches(now, last, metadata, continuations, current_state_files) ==
    IF now - last < CACHE_CLEANUP_INTERVAL
    THEN [ran |-> FALSE, last |-> last, metadata |-> metadata,
          continuations |-> continuations]
    ELSE [ran |-> TRUE,
          last |-> now,
          metadata |-> [p \in DOMAIN metadata |->
                          IF metadata[p] # NoEntry
                             /\ now - metadata[p].cache_time > MaxCacheAge
                          THEN NoEntry ELSE metadata[p]],
          continuations |-> IF current_state_files = NoStateFiles THEN continuations
                            ELSE continuations \cap current_state_files]

NoSweepCall ==
    [kind |-> "none", now |-> 0, last |-> 0, metadata |-> <<>>, continuations |-> {}]

SweepInit ==
    /\ w_clock = StartClock
    /\ w_state_dir \in BOOLEAN
    /\ w_state_files = {}
    /\ w_metadata_cache = [p \in SweepPaths |-> NoEntry]
    /\ w_continuation_cache = {}
    /\ w_last_cleanup = 0
    /\ w_polls = 0
    /\ w_last = NoSweepCall

SweepOff ==
    /\ w_clock = 0
    /\ w_state_dir = FALSE
    /\ w_state_files = {}
    /\ w_metadata_cache = [p \in SweepPaths |-> NoEntry]
    /\ w_continuation_cache = {}
    /\ w_last_cleanup = 0
    /\ w_polls = 0
    /\ w_last = NoSweepCall

\* One poll's get_all_active_state_files: nothing when STATE_DIR does not
\* exist, otherwise the scan of the state files and, last,
\* cleanup_stale_caches(set(current_mtimes.keys())).
GetAllActiveStateFiles ==
    /\ w_polls' = 1 - w_polls
    /\ IF ~w_state_dir
       THEN /\ w_last' = NoSweepCall
            /\ UNCHANGED <<w_metadata_cache, w_continuation_cache, w_last_cleanup>>
       ELSE LET r == CleanupStaleCaches(w_clock, w_last_cleanup, w_metadata_cache,
                                        w_continuation_cache, w_state_files)
            IN /\ w_metadata_cache' = r.metadata
               /\ w_continuation_cache' = r.continuations
               /\ w_last_cleanup' = r.last
               /\ w_last' = [kind |-> IF r.ran THEN "swept" ELSE "skipped",
                             now |-> w_clock, last |-> w_last_cleanup,
                             metadata |-> w_metadata_cache,
                             continuations |-> w_continuation_cache]
    /\ UNCHANGED <<w_clock, w_state_dir, w_state_files>>

\* extract_jsonl_metadata stores an entry: (mtime, time.time(), metadata).
StoreMetadata ==
    /\ w_clock <= LastStoreClock
    /\ \E p \in SweepPaths :
          w_metadata_cache' = [w_metadata_cache EXCEPT ![p] =
                                  [mtime |-> 0, cache_time |-> w_clock,
                                   data |-> [sessionId |-> p]]]
    /\ w_last' = NoSweepCall
    /\ UNCHANGED <<w_clock, w_state_dir, w_state_files, w_continuation_cache,
                   w_last_cleanup, w_polls>>

\* find_session_continuation stores a result for a session.
StoreContinuation ==
    /\ \E sid \in SweepSids : w_continuation_cache' = w_continuation_cache \cup {sid}
    /\ w_last' = NoSweepCall
    /\ UNCHANGED <<w_clock, w_state_dir, w_state_files, w_metadata_cache,
                   w_last_cleanup, w_polls>>

\* A hook writes a session's state file, or the file is removed.
StateFileChange ==
    /\ w_state_dir
    /\ \E sid \in SweepSids :
          w_state_files' = IF sid \in w_state_files THEN w_state_files \ {sid}
                           ELSE w_state_files \cup {sid}
    /\ w_last' = NoSweepCall
    /\ UNCHANGED <<w_clock, w_state_dir, w_metadata_cache, w_continuation_cache,
                   w_last_cleanup, w_polls>>

\* Time passes.
SweepTick ==
    /\ w_clock + SweepStep <= MaxSweepClock
    /\ w_clock' = w_clock + SweepStep
    /\ w_last' = NoSweepCall
    /\ UNCHANGED <<w_state_dir, w_state_files, w_metadata_cache,
                   w_continuation_cache, w_last_cleanup, w_polls>>

\* C21: a cleanup_stale_caches call made less than CACHE_CLEANUP_INTERVAL after
\* the last sweep that ran removes nothing and leaves every cache and the time
\* of the last sweep unchanged; a sweep runs only when at least the interval
\* has passed since the sweep before it.
C21_NoSweepWithinInterval ==
    /\ (w_last.kind # "none" /\ w_last.now - w_last.last < CACHE_CLEANUP_INTERVAL) =>
          /\ w_last.kind = "skipped"
          /\ w_metadata_cache = w_last.metadata
          /\ w_continuation_cache = w_last.continuations
          /\ w_last_cleanup = w_last.last
    /\ w_last.kind = "swept" =>
          /\ w_last.now - w_last.last >= CACHE_CLEANUP_INTERVAL
          /\ w_last_cleanup = w_last.now

\* C21 witness: a call within the interval after a sweep was skipped although
\* the caches held an entry past the maximum age and the continuation entry of
\* a session without state file.
C21_Witness ==
    /\ w_last.kind = "skipped"
    /\ w_last.last >= StartClock
    /\ \E p \in SweepPaths :
          /\ w_metadata_cache[p] # NoEntry
          /\ w_last.now - w_metadata_cache[p].cache_time > MaxCacheAge
    /\ w_continuation_cache \ w_state_files # {}

\* The entry of path p has stayed cached for longer than the maximum age.
StaleEntry(p) ==
    /\ w_metadata_cache[p] # NoEntry
    /\ w_clock - w_metadata_cache[p].cache_time > MaxCacheAge

\* C22: under continued polling every metadata cache entry that has stayed
\* cached for longer than the maximum age is eventually removed.
C22_StaleEntryEventuallyRemoved ==
    \A p \in SweepPaths : StaleEntry(p) ~> ~StaleEntry(p)

\* C22, where STATE_DIR exists: the entry is eventually removed.
C22_RemovedWhereStateDirExists ==
    \A p \in SweepPaths : (w_state_dir /\ StaleEntry(p)) ~> ~StaleEntry(p)

\* C22 divergence: STATE_DIR does not exist, polls were made, and an entry
\* older than the maximum age plus a whole cleanup interval is still cached.
C22_StaleEntryNeverSwept ==
    /\ ~w_state_dir
    /\ w_polls = 1
    /\ w_last_cleanup = 0
    /\ \E p \in SweepPaths :
          /\ w_metadata_cache[p] # NoEntry
          /\ w_clock - w_metadata_cache[p].cache_time
                > MaxCacheAge + CACHE_CLEANUP_INTERVAL

-----------------------------------------------------------------------------
(* session_detector.py: update_activity_timestamp, get_activity_timestamp     *)
(* and the two places that update the timestamp.                              *)

\* Bounds and inputs of the activity-timestamp specification.
MaxActClock == 4
ActSids == {SessionNames[1], SessionNames[2]}
NoFile == -1
\* No value returned yet.
NoTimestamp == -1

\* The timestamp runs against the clock.
UpdateActivityTimestampBackwards(now) == MaxActClock - now
\* update_activity_timestamp: _last_activity_time = time.time()
UpdateActivityTimestamp(now) == now

\* The dict current_mtimes built by the scan: the files that exist.
CurrentMtimes(files) == [sid \in {x \in DOMAIN files : files[x] # NoFile} |-> files[sid]]

\* state_changed: a file whose mtime differs from the remembered one, or a
\* different set of files.
StateChanged(remembered, current) ==
    \/ \E sid \in DOMAIN current :
          sid \notin DOMAIN remembered \/ remembered[sid] # current[sid]
    \/ DOMAIN remembered # DOMAIN current

ActivityInit ==
    /\ a_clock = 1
    /\ a_state_dir \in BOOLEAN
    /\ a_state_files = [sid \in ActSids |-> NoFile]
    /\ a_state_file_mtimes = <<>>
    /\ a_last_activity_time = 0
    /\ a_ret = NoTimestamp
    /\ a_prev = NoTimestamp

ActivityOff ==
    /\ a_clock = 0
    /\ a_state_dir = FALSE
    /\ a_state_files = [sid \in ActSids |-> NoFile]
    /\ a_state_file_mtimes = <<>>
    /\ a_last_activity_time = 0
    /\ a_ret = NoTimestamp
    /\ a_prev = NoTimestamp

\* get_all_active_state_files as far as the timestamp goes: the scan, the
\* comparison with _state_file_mtimes and the update when something changed.
ScanStateFiles ==
    /\ a_state_dir
    /\ LET current_mtimes == CurrentMtimes(a_state_files)
       IN /\ a_state_file_mtimes' = current_mtimes
          /\ a_last_activity_time' =
                IF StateChanged(a_state_file_mtimes, current_mtimes)
                THEN UpdateActivityTimestamp(a_clock)
                ELSE a_last_activity_time
    /\ UNCHANGED <<a_clock, a_state_dir, a_state_files, a_ret, a_prev>>

\* extract_jsonl_metadata on a cache miss: after the store,
\* update_activity_timestamp().
ExtractMiss ==
    /\ a_last_activity_time' = UpdateActivityTimestamp(a_clock)
    /\ UNCHANGED <<a_clock, a_state_dir, a_state_files, a_state_file_mtimes,
                   a_ret, a_prev>>

\* get_activity_timestamp()
GetActivityTimestamp ==
    /\ a_ret' = a_last_activity_time
    /\ a_prev' = a_ret
    /\ UNCHANGED <<a_clock, a_state_dir, a_state_files, a_state_file_mtimes,
                   a_last_activity_time>>

\* A hook writes a state file, or a state file is removed.
WriteStateFile ==
    /\ a_state_dir
    /\ \E sid \in ActSids, removed \in BOOLEAN :
          a_state_files' = [a_state_files EXCEPT ![sid] =
                               IF removed THEN NoFile ELSE a_clock]
    /\ UNCHANGED <<a_clock, a_state_dir, a_state_file_mtimes,
                   a_last_activity_time, a_ret, a_prev>>

\* A second passes.
ActivityTick ==
    /\ a_clock < MaxActClock
    /\ a_clock' = a_clock + 1
    /\ UNCHANGED <<a_state_dir, a_state_files, a_state_file_mtimes,
                   a_last_activity_time, a_ret, a_prev>>

\* C23: each value get_activity_timestamp returns is at least the value it
\* returned before, and the stored timestamp is at least the last value
\* returned.
C23_ActivityTimestampMonotonic ==
    /\ a_prev # NoTimestamp => a_ret >= a_prev
    /\ a_ret # NoTimestamp => a_last_activity_time >= a_ret

\* C23 witness: two calls returned different values, the later one larger,
\* after a state-file change was seen by a scan.
C23_Witness ==
    /\ a_prev > 0
    /\ a_ret > a_prev
    /\ a_state_file_mtimes # <<>>
    /\ \E sid \in DOMAIN a_state_file_mtimes : a_state_file_mtimes[sid] > a_prev

-----------------------------------------------------------------------------
(* session_detector.py: read_session_state and the state of the record        *)
(* get_sessions appends for a matched process.                                *)

STATE_FILE_MAX_AGE_SECONDS == 300

\* What json.load makes of a state file: a JSONDecodeError, a value that is
\* not an object (null, a number), or an object with or without the keys
\* 'state' and 'updated_at'.
StateFileContents ==
    {[json |-> "invalid", state |-> NONE, updated_at |-> FALSE],
     [json |-> "null", state |-> NONE, updated_at |-> FALSE]}
    \cup [json : {"object"}, state : {NONE, "active", "waiting", "idle"},
          updated_at : BOOLEAN]

\* Ages of the state file around the ceiling, recencies and CPU loads around
\* the thresholds.
StateFileAges ==
    {STATE_FILE_MAX_AGE_SECONDS - 1, STATE_FILE_MAX_AGE_SECONDS,
     STATE_FILE_MAX_AGE_SECONDS + 1}
Recencies == {ACTIVE_RECENCY_SECONDS - 1, ACTIVE_RECENCY_SECONDS}
CpuLoads == {ACTIVE_CPU_THRESHOLD, ACTIVE_CPU_THRESHOLD + 1}

NoStateFile == [exists |-> FALSE, age |-> 0,
                content |-> [json |-> "invalid", state |-> NONE, updated_at |-> FALSE]]
NoHookState == [found |-> FALSE, raised |-> FALSE, state |-> NONE]
TypeErrorRaised == [found |-> FALSE, raised |-> TRUE, state |-> NONE]

\* A state file is read whatever its age.
ReadSessionStateAnyAge(file) ==
    IF ~file.exists THEN NoHookState
    ELSE IF file.content.json = "invalid" THEN NoHookState
    ELSE IF file.content.json = "null" THEN TypeErrorRaised
    ELSE IF file.content.state = NONE \/ ~file.content.updated_at THEN NoHookState
    ELSE IF file.content.state \notin {"active", "waiting"} THEN NoHookState
    ELSE [found |-> TRUE, raised |-> FALSE, state |-> file.content.state]
\* read_session_state(session_id) with ignore_stale=False: None for a missing
\* file, a file older than the ceiling, a JSONDecodeError, a missing key or
\* another state value; `'state' not in state` raises TypeError, which is not
\* caught, when the file holds null or a number.
ReadSessionStateFile(file) ==
    IF ~file.exists THEN NoHookState
    ELSE IF file.age > STATE_FILE_MAX_AGE_SECONDS THEN NoHookState
    ELSE IF file.content.json = "invalid" THEN NoHookState
    ELSE IF file.content.json = "null" THEN TypeErrorRaised
    ELSE IF file.content.state = NONE \/ ~file.content.updated_at THEN NoHookState
    ELSE IF file.content.state \notin {"active", "waiting"} THEN NoHookState
    ELSE [found |-> TRUE, raised |-> FALSE, state |-> file.content.state]

\* "Fallback to CPU/recency heuristics"
PollingState(recency, cpu) ==
    IF recency < ACTIVE_RECENCY_SECONDS \/ cpu > ACTIVE_CPU_THRESHOLD
    THEN "active" ELSE "waiting"

NoStateOut == [state |-> NONE, stateSource |-> NONE]

StateIdle ==
    /\ h_out = NoStateOut
    /\ h_pc = "ready"

StateInit ==
    /\ \/ h_file = NoStateFile
       \/ h_file \in [exists : {TRUE}, age : StateFileAges, content : StateFileContents]
    /\ h_cpu \in CpuLoads
    /\ h_recency \in Recencies
    /\ StateIdle

StateOff ==
    /\ h_file = NoStateFile
    /\ h_cpu = 0
    /\ h_recency = 0
    /\ h_out = NoStateOut
    /\ h_pc = "idle"

\* The body of the result loop for one matched process, as far as 'state' and
\* 'stateSource' go.
AppendRecord ==
    /\ h_pc = "ready"
    /\ LET hook_state == ReadSessionStateFile(h_file)
       IN IF hook_state.raised
          THEN /\ h_pc' = "error"
               /\ UNCHANGED h_out
          ELSE /\ h_pc' = "done"
               /\ h_out' = IF hook_state.found
                           THEN [state |-> hook_state.state, stateSource |-> "hooks"]
                           ELSE [state |-> PollingState(h_recency, h_cpu),
                                 stateSource |-> "polling"]
    /\ UNCHANGED <<h_file, h_cpu, h_recency>>

\* The file exists, holds an object with 'state' and 'updated_at' and one of
\* the two state values.
ValidStateFile ==
    /\ h_file.exists
    /\ h_file.content.json = "object"
    /\ h_file.content.updated_at
    /\ h_file.content.state \in {"active", "waiting"}

C24_StaleFileIgnored ==
    /\ h_pc = "done"
    /\ ValidStateFile
    /\ h_file.age > STATE_FILE_MAX_AGE_SECONDS
    /\ h_out.stateSource = "polling"
    /\ h_out.state # h_file.content.state

-----------------------------------------------------------------------------
(* detection/activity.py: get_activity_periods *)

\* bucket_minutes and bucket_seconds = bucket_minutes * 60
BucketMinutes == 1
BucketSeconds == BucketMinutes * 60
\* deduped[-10:]
MaxActivities == 10

\* A timestamp that is not a string (JSON null).
NoneTs == [txt |-> "none", secs |-> 0]

\* Bounds and inputs of the bucketing specification.
MaxEvents == 3
MaxLongEvents == 12
EventTimes == {0, 30, 60}
Activities == {"a", "b"}
EventUniverse ==
    [timestamp : {IsoTs(t) : t \in EventTimes} \cup {BadTs, NoneTs},
     active : BOOLEAN, activity : {NONE, "a"}]

\* sorted(events, key=lambda e: e['timestamp']) compares the keys with <: a
\* None key cannot be compared and the sort raises TypeError as soon as there
\* are two events.
SortRaises(events) ==
    /\ Len(events) >= 2
    /\ \E i \in 1..Len(events) : events[i].timestamp.txt = "none"

\* The order of the timestamp strings: ISO strings of one format by their
\* time, and "invalid" after the digits.
TimestampKey(ts) == IF ts.txt = "iso" THEN ts.secs ELSE Infinity

\* sorted(events, key=lambda e: e['timestamp']): stable, ascending.
SortEvents(events) ==
    LET rank(i) == Cardinality({j \in 1..Len(events) :
                       \/ TimestampKey(events[j].timestamp) < TimestampKey(events[i].timestamp)
                       \/ (/\ TimestampKey(events[j].timestamp) = TimestampKey(events[i].timestamp)
                           /\ j < i)}) + 1
    IN  [k \in 1..Len(events) |-> events[CHOOSE i \in 1..Len(events) : rank(i) = k]]

\* Each activity with the mark of whether it differs from the one before.
MarkRuns(activities) ==
    [i \in 1..Len(activities) |->
        [act |-> activities[i],
         keep |-> i = 1 \/ activities[i] # activities[i - 1]]]

\* The activity strings of marked entries.
ActivitiesOf(marked) == [i \in 1..Len(marked) |-> marked[i].act]

\* Nothing is collapsed.
DedupeNothing(activities) == activities
\* "Dedupe consecutive same activities"
Dedupe(activities) ==
    ActivitiesOf(SelectSeq(MarkRuns(activities), LAMBDA x : x.keep))

\* s[-n:]
LastN(s, n) == IF Len(s) <= n THEN s ELSE SubSeq(s, Len(s) - n + 1, Len(s))

\* The bucket is active when its last event is.
BucketHasActivityLast(bucket_has_activity, active) == active
\* bucket_has_activity = bucket_has_activity or event['active']
BucketHasActivity(bucket_has_activity, active) == bucket_has_activity \/ active

\* The locals of the fold before the first event.
NoBucket ==
    [open |-> FALSE, current_bucket_start |-> 0, current_bucket_end |-> 0,
     bucket_has_activity |-> FALSE, bucket_activities |-> <<>>, members |-> <<>>,
     periods |-> <<>>, buckets |-> <<>>]

\* save_bucket(): the period is appended when the bucket had activity.
SaveBucket(st) ==
    [st EXCEPT
        !.periods =
            IF st.bucket_has_activity
            THEN Append(@, [start |-> IsoTs(st.current_bucket_start),
                            end |-> IsoTs(st.current_bucket_end),
                            state |-> "active",
                            activities |-> LastN(Dedupe(st.bucket_activities),
                                                 MaxActivities)])
            ELSE @,
        !.buckets = Append(@, [start |-> st.current_bucket_start,
                                end |-> st.current_bucket_end,
                                events |-> st.members,
                                emitted |-> st.bucket_has_activity]),
        !.bucket_activities = <<>>]

\* A bucket opened by event at event_timestamp.
StartBucket(st, event, event_timestamp) ==
    [st EXCEPT !.open = TRUE,
               !.current_bucket_start = event_timestamp,
               !.current_bucket_end = event_timestamp + BucketSeconds,
               !.bucket_has_activity = event.active,
               !.bucket_activities = IF event.activity # NONE
                                     THEN <<event.activity>> ELSE <<>>,
               !.members = <<event>>]

\* One round of `for event in sorted_events`.
FoldEvent(st, event) ==
    IF ~Parseable(event.timestamp) THEN st
    ELSE LET event_timestamp == FromIsoFormat(event.timestamp) IN
         IF ~st.open THEN StartBucket(st, event, event_timestamp)
         ELSE IF event_timestamp < st.current_bucket_end
         THEN [st EXCEPT
                  !.bucket_has_activity = BucketHasActivity(@, event.active),
                  !.bucket_activities = IF event.activity # NONE
                                        THEN Append(@, event.activity) ELSE @,
                  !.members = Append(@, event)]
         ELSE StartBucket(SaveBucket(st), event, event_timestamp)

\* `for event in sorted_events` from event i on.
RECURSIVE FoldFrom(_, _, _)
FoldFrom(st, sorted_events, i) ==
    IF i > Len(sorted_events) THEN st
    ELSE FoldFrom(FoldEvent(st, sorted_events[i]), sorted_events, i + 1)

\* get_activity_periods(events, bucket_minutes) once the events are sorted.
FoldEvents(sorted_events) ==
    LET st == FoldFrom(NoBucket, sorted_events, 1)
    IN  IF st.open THEN SaveBucket(st) ELSE st

\* get_activity_periods(events, bucket_minutes)
GetActivityPeriods(events) ==
    IF events = <<>> THEN [raised |-> FALSE, periods |-> <<>>, buckets |-> <<>>]
    ELSE IF SortRaises(events)
    THEN [raised |-> TRUE, periods |-> <<>>, buckets |-> <<>>]
    ELSE LET st == FoldEvents(SortEvents(events))
         IN [raised |-> FALSE, periods |-> st.periods, buckets |-> st.buckets]

PeriodsIdle ==
    /\ e_periods = <<>>
    /\ e_buckets = <<>>
    /\ e_pc = "ready"

\* Short lists of any events, and long lists of active events of one instant.
PeriodsInit ==
    /\ \/ e_events \in SeqsUpTo(EventUniverse, MaxEvents)
       \/ \E n \in (MaxActivities + 1)..MaxLongEvents :
             e_events \in [1..n -> [timestamp : {IsoTs(0)}, active : {TRUE},
                                    activity : Activities]]
    /\ PeriodsIdle

PeriodsOff ==
    /\ e_events = <<>>
    /\ e_periods = <<>>
    /\ e_buckets = <<>>
    /\ e_pc = "idle"

\* One call of get_activity_periods.
GetActivityPeriodsCall ==
    /\ e_pc = "ready"
    /\ LET r == GetActivityPeriods(e_events)
       IN IF r.raised
          THEN /\ e_pc' = "error"
               /\ UNCHANGED <<e_periods, e_buckets>>
          ELSE /\ e_pc' = "done"
               /\ e_periods' = r.periods
               /\ e_buckets' = r.buckets
    /\ UNCHANGED e_events

\* The earliest time of the events, all of them parseable.
EarliestTime(events) ==
    CHOOSE t \in {FromIsoFormat(events[i].timestamp) : i \in 1..Len(events)} :
        \A i \in 1..Len(events) : t <= FromIsoFormat(events[i].timestamp)

\* N >= 1 events, all active, with parseable timestamps.
ActiveEvents(events) ==
    /\ Len(events) >= 1
    /\ \A i \in 1..Len(events) :
          events[i].active /\ Parseable(events[i].timestamp)

\* Exactly one period, with at most MaxActivities activities and no two
\* adjacent equal ones.
OnePeriod ==
    /\ e_pc = "done"
    /\ Len(e_periods) = 1
    /\ Len(e_periods[1].activities) <= MaxActivities
    /\ \A i \in 1..(Len(e_periods[1].activities) - 1) :
          e_periods[1].activities[i] # e_periods[1].activities[i + 1]

\* C26 (as claimed): N >= 1 active events whose timestamps all lie within one
\* window width of the earliest yield exactly one period, with at most 10
\* activities and no two adjacent equal ones.
C26_OnePeriodWithinWidth ==
    (/\ e_pc # "ready"
     /\ ActiveEvents(e_events)
     /\ \A i \in 1..Len(e_events) :
           FromIsoFormat(e_events[i].timestamp) - EarliestTime(e_events)
              <= BucketSeconds)
    => OnePeriod

\* C26 (amended): the same for events that all lie less than one window width
\* after the earliest; an event exactly one width after it opens a second
\* period.
C26_OnePeriodInsideWidth ==
    /\ (/\ e_pc # "ready"
        /\ ActiveEvents(e_events)
        /\ \A i \in 1..Len(e_events) :
              FromIsoFormat(e_events[i].timestamp) - EarliestTime(e_events)
                 < BucketSeconds)
       => OnePeriod
    /\ (/\ e_pc # "ready"
        /\ ActiveEvents(e_events)
        /\ \E i \in 1..Len(e_events) :
              FromIsoFormat(e_events[i].timestamp) - EarliestTime(e_events)
                 = BucketSeconds)
       => (e_pc = "done" /\ Len(e_periods) = 2)

\* C26 witness: more than 10 active events of one instant whose activities
\* alternate gave one period with exactly 10 activities.
C26_Witness ==
    /\ e_pc = "done"
    /\ Len(e_events) > MaxActivities
    /\ \A i \in 1..(Len(e_events) - 1) : e_events[i].activity # e_events[i + 1].activity
    /\ Len(e_periods) = 1
    /\ Len(e_periods[1].activities) = MaxActivities
    /\ e_periods[1].activities[MaxActivities] = e_events[Len(e_events)].activity

\* C26 boundary: two active events exactly one window width apart gave two
\* periods.
C26_BoundaryOpensSecondPeriod ==
    /\ e_pc = "done"
    /\ Len(e_events) = 2
    /\ ActiveEvents(e_events)
    /\ FromIsoFormat(e_events[2].timestamp)
          = FromIsoFormat(e_events[1].timestamp) + BucketSeconds
    /\ Len(e_periods) = 2

\* Bucket b holds an active event.
HasActiveEvent(b) == \E i \in 1..Len(b.events) : b.events[i].active

\* The buckets that hold an active event, in order.
ActiveBuckets == SelectSeq(e_buckets, HasActiveEvent)

\* C27: a bucket is emitted as a period exactly when at least one of its
\* events is active; the periods are those buckets in order, each with state
\* 'active', and a bucket whose events are all inactive gives no period.
C27_EmittedIffActive ==
    e_pc = "done" =>
        /\ \A i \in 1..Len(e_buckets) :
              e_buckets[i].emitted <=> HasActiveEvent(e_buckets[i])
        /\ Len(e_periods) = Len(ActiveBuckets)
        /\ \A i \in 1..Len(e_periods) :
              /\ e_periods[i].state = "active"
              /\ e_periods[i].start = IsoTs(ActiveBuckets[i].start)
              /\ e_periods[i].end = IsoTs(ActiveBuckets[i].end)

\* C27 witness: a bucket of inactive events was dropped and a bucket whose
\* active event is followed by an inactive one was emitted.
C27_Witness ==
    /\ e_pc = "done"
    /\ Len(e_periods) = 1
    /\ \E i, j \in 1..Len(e_buckets) :
          /\ ~e_buckets[i].emitted
          /\ e_buckets[i].events # <<>>
          /\ e_buckets[j].emitted
          /\ Len(e_buckets[j].events) = 2
          /\ e_buckets[j].events[1].active
          /\ ~e_buckets[j].events[2].active

\* The events whose timestamp parses.
ParseableEvents(events) ==
    SelectSeq(events, LAMBDA ev : Parseable(ev.timestamp))

\* C28: events with unparsable timestamps are skipped: the call does not
\* raise and returns the periods of the event list without those events; an
\* empty list gives an empty list.
C28_UnparsableSkipped ==
    /\ e_pc # "error"
    /\ e_pc = "done" =>
          /\ e_periods = GetActivityPeriods(ParseableEvents(e_events)).periods
          /\ e_events = <<>> => e_periods = <<>>

\* C28, for timestamps that are strings: unparsable ones are skipped.
C28_UnparsableStringsSkipped ==
    (/\ e_pc # "ready"
     /\ \A i \in 1..Len(e_events) : e_events[i].timestamp.txt # "none")
    => /\ e_pc = "done"
       /\ e_periods = GetActivityPeriods(ParseableEvents(e_events)).periods

\* C28 divergence: the call raised on an event list holding a timestamp that
\* is not a string next to an active event with a valid one.
C28_SortRaised ==
    /\ e_pc = "error"
    /\ \E i, j \in 1..Len(e_events) :
          /\ e_events[i].timestamp = NoneTs
          /\ Parseable(e_events[j].timestamp)
          /\ e_events[j].active

\* C28 witness of the string case: an event with an invalid timestamp string
\* was skipped and the valid active event gave its period.
C28_InvalidStringSkipped ==
    /\ e_pc = "done"
    /\ Len(e_events) = 2
    /\ e_events[1].timestamp = BadTs
    /\ e_events[1].active
    /\ Parseable(e_events[2].timestamp)
    /\ Len(e_periods) = 1

\* The returned periods whose [start, end) interval holds time t.
PeriodsHolding(t) ==
    {k \in 1..Len(e_periods) :
        /\ FromIsoFormat(e_periods[k].start) <= t
        /\ t < FromIsoFormat(e_periods[k].end)}

\* Every active event with a parseable timestamp lies in exactly one returned
\* period, each period is one bucket width long, and the periods are in
\* increasing start order.
ActiveEventsCovered ==
    /\ e_pc = "done"
    /\ \A i \in 1..Len(e_events) :
          (e_events[i].active /\ Parseable(e_events[i].timestamp)) =>
              Cardinality(PeriodsHolding(FromIsoFormat(e_events[i].timestamp))) = 1
    /\ \A k \in 1..Len(e_periods) :
          FromIsoFormat(e_periods[k].end)
             = FromIsoFormat(e_periods[k].start) + BucketSeconds
    /\ \A k \in 1..(Len(e_periods) - 1) :
          FromIsoFormat(e_periods[k].start) < FromIsoFormat(e_periods[k + 1].start)

\* C39: for any input order of the events, every active event with a
\* parseable timestamp lies inside the [start, end) interval of exactly one
\* returned period, each period's end is its start plus the bucket width, and
\* the periods are returned in increasing start order.
C39_ActiveEventInExactlyOnePeriod ==
    e_pc # "ready" => ActiveEventsCovered

\* C39, for event lists the sort accepts (every timestamp a string, or a
\* single event): the same.
C39_CoveredWhereSortAccepts ==
    (e_pc # "ready" /\ ~SortRaises(e_events)) => ActiveEventsCovered

\* C39 divergence: an active event with a valid timestamp, followed by an
\* event whose timestamp is null, and no period was returned for it.
C39_ActiveEventWithoutPeriod ==
    /\ e_pc = "error"
    /\ Len(e_events) = 2
    /\ e_events[1].active
    /\ Parseable(e_events[1].timestamp)
    /\ e_events[2].timestamp = NoneTs
    /\ PeriodsHolding(FromIsoFormat(e_events[1].timestamp)) = {}

\* C39, order: active events given latest first came back as periods in
\* increasing start order, each event in its own period.
C39_ReversedInputCovered ==
    /\ e_pc = "done"
    /\ Len(e_events) = 3
    /\ \A i \in 1..2 :
          /\ Parseable(e_events[i].timestamp)
          /\ e_events[i].active
    /\ FromIsoFormat(e_events[1].timestamp)
          = FromIsoFormat(e_events[2].timestamp) + BucketSeconds
    /\ e_events[3].timestamp = BadTs
    /\ Len(e_periods) = 2
    /\ e_periods[1].start = e_events[2].timestamp

\* C29: match_process_to_session returns None exactly when the candidate
\* list is empty; for a non-empty list, also one whose start timestamps are
\* missing or invalid, it returns one element of the list.
C29_NoneIffNoCandidates ==
    m_pc = "done" =>
        /\ m_best = NoSession <=> m_sessions = <<>>
        /\ m_sessions # <<>> => m_best \in Range(m_sessions)

\* C29 witness: a process with a start time and two candidates, one without a
\* start timestamp and one with an invalid one, got one of the two.
C29_Witness ==
    /\ m_pc = "done"
    /\ m_proc.start_time # 0
    /\ Len(m_sessions) = 2
    /\ m_sessions[1].startTimestamp = NoTs
    /\ m_sessions[2].startTimestamp = BadTs
    /\ m_best \in Range(m_sessions)

\* C29 witness of the empty case: no candidates, None returned.
C29_EmptyGivesNone ==
    /\ m_pc = "done"
    /\ m_sessions = <<>>
    /\ m_best = NoSession

-----------------------------------------------------------------------------
(* detection/processes.py: the line filter of get_claude_processes (the same  *)
(* code as session_detector.py: get_claude_processes).                        *)

\* Largest number of `ps aux` lines drawn.
MaxLines == 2

\* The TT column: no controlling terminal on Linux and on macOS, a macOS
\* pseudo-terminal (/dev/ttys000), a Linux pseudo-terminal (/dev/pts/0).
TtyNames == {"?", "??", "s000", "pts/0"}
\* The terminals that have a device file.
TtyDevices == {"s000", "pts/0"}
\* The STAT column.
StatNames == {"S+", "Z+"}
\* The COMMAND column, split at white space; <<>> is a line cut short.
Commands ==
    {<<>>, <<"claude">>, <<"/usr/local/bin/claude">>, <<"grep", "claude">>,
     <<"Claude.app">>, <<"node", "claude">>, <<"vim">>}

\* 'claude' in word.lower()
MentionsClaude(word) ==
    word \in {"claude", "/usr/local/bin/claude", "Claude.app"}

\* any(skip in word for skip in ['/bin/zsh', 'grep', 'Claude.app',
\* 'node_modules', 'chrome-', '@claude-flow'])
HasSkipMarker(word) == word \in {"grep", "Claude.app"}

\* cmd_start == 'claude' or cmd_start.endswith('/claude')
IsClaudeCommand(cmd_start) == cmd_start \in {"claude", "/usr/local/bin/claude"}

\* tty in ('?', '??')
NoControllingTerminal(tty) == tty \in {"?", "??"}

\* state.startswith('Z')
IsZombie(state) == state \in {"Z", "Z+"}

\* tty.startswith('s') and tty[1:].isdigit()
IsMacPtyName(tty) == tty \in {"s000"}

\* line.split(): the ten columns before COMMAND, then the command's words.
Parts(line) ==
    <<"user", line.pid, "0.5", "1.0", "123456", "12345", line.tty, line.stat,
      "10:00AM", "0:05.00">> \o line.cmd

\* The body of the loop of get_claude_processes up to the last `continue`:
\* TRUE when the line gets a record.
KeepsLine(line, devs) ==
    LET parts == Parts(line) IN
    /\ \E i \in 1..Len(line.cmd) : MentionsClaude(line.cmd[i])
    /\ ~\E i \in 1..Len(line.cmd) : HasSkipMarker(line.cmd[i])
    /\ Len(parts) >= 11
    /\ IsClaudeCommand(parts[11])
    /\ ~NoControllingTerminal(parts[7])
    /\ ~IsZombie(parts[8])
    /\ IsMacPtyName(parts[7]) => parts[7] \in devs

\* The record appended for a line: the fields read from the line.
ProcessRecord(line) ==
    LET parts == Parts(line) IN
    [pid |-> parts[2], tty |-> parts[7], state |-> parts[8],
     cmd |-> SubSeq(parts, 11, Len(parts))]

\* get_claude_processes() on the given `ps aux` lines and device files.
GetClaudeProcesses(lines, devs) ==
    LET kept == SelectSeq(lines, LAMBDA line : KeepsLine(line, devs))
    IN  [i \in 1..Len(kept) |-> ProcessRecord(kept[i])]

\* Line i of the output is the line of process i.
PsOutput(rows) ==
    [i \in 1..Len(rows) |->
        [pid |-> i, tty |-> rows[i].tty, stat |-> rows[i].stat,
         cmd |-> rows[i].cmd]]

FilterInit ==
    /\ \E rows \in SeqsUpTo([tty : TtyNames, stat : StatNames, cmd : Commands],
                            MaxLines) :
          l_lines = PsOutput(rows)
    /\ l_devs \in SUBSET TtyDevices
    /\ l_out = <<>>
    /\ l_pc = "ready"

FilterOff ==
    /\ l_lines = <<>>
    /\ l_devs = {}
    /\ l_out = <<>>
    /\ l_pc = "idle"

\* One call of get_claude_processes.
GetClaudeProcessesCall ==
    /\ l_pc = "ready"
    /\ l_out' = GetClaudeProcesses(l_lines, l_devs)
    /\ l_pc' = "done"
    /\ UNCHANGED <<l_lines, l_devs>>

\* The process of line i is among the returned records.
LineReturned(i) == \E k \in 1..Len(l_out) : l_out[k].pid = l_lines[i].pid

\* The command of the process is the agent CLI: `claude` or a path to it.
IsAgentCli(line) ==
    /\ line.cmd # <<>>
    /\ line.cmd[1] \in {"claude", "/usr/local/bin/claude"}

\* C30: no returned process has no controlling terminal, is a zombie, has a
\* terminal whose device no longer exists, or runs a command that is not the
\* agent CLI.
C30_NoRejectableProcessReturned ==
    l_pc = "done" =>
        \A i \in 1..Len(l_lines) :
            LineReturned(i) =>
                /\ ~NoControllingTerminal(l_lines[i].tty)
                /\ ~IsZombie(l_lines[i].stat)
                /\ l_lines[i].tty \in l_devs
                /\ IsAgentCli(l_lines[i])

\* C30, with the device test as the code makes it: the device is verified
\* for the terminals named s<digits> only.
C30_RejectedWhereDeviceChecked ==
    l_pc = "done" =>
        \A i \in 1..Len(l_lines) :
            LineReturned(i) =>
                /\ ~NoControllingTerminal(l_lines[i].tty)
                /\ ~IsZombie(l_lines[i].stat)
                /\ IsMacPtyName(l_lines[i].tty) => l_lines[i].tty \in l_devs
                /\ IsAgentCli(l_lines[i])

\* C30 divergence: a process was returned whose terminal has no device.
C30_MissingDeviceReturned ==
    /\ l_pc = "done"
    /\ \E i \in 1..Len(l_lines) :
          /\ LineReturned(i)
          /\ l_lines[i].tty \notin l_devs

\* C30 witness of the filter: of two agent CLI processes the one on a
\* terminal with its device was returned, the one on a terminal named
\* s<digits> without its device was not.
C30_FilterActed ==
    /\ l_pc = "done"
    /\ Len(l_lines) = 2
    /\ IsAgentCli(l_lines[1]) /\ IsAgentCli(l_lines[2])
    /\ IsMacPtyName(l_lines[1].tty) /\ l_lines[1].tty \notin l_devs
    /\ ~LineReturned(1)
    /\ LineReturned(2)

-----------------------------------------------------------------------------
(* session_detector.py: the body of extract_jsonl_metadata on one transcript, *)
(* line by line.                                                              *)

\* Bounds of the extraction specification: short transcripts of any lines,
\* long ones of lines with an activity.
MaxTranscript == 3
MaxLongTranscript == 12
\* for _ in range(20)
StartScanLines == 20
\* activities[-10:]
MaxRecentActivity == 10

\* project_dir_name.split('-')[-1] of ProjectDir
FallbackSlug == "b"
\* A cwd value of a transcript line that is no string.
NonStringCwd == "<123>"
\* data['cwd'] of a line, and metadata['cwd'].rstrip('/').split('/')[-1]
LineCwd == "/work/proj"
LastComponent(cwd) == IF cwd = LineCwd THEN "proj" ELSE cwd

\* A line of the transcript: kind "garbage" is no JSON, "nondict" is JSON but
\* no object, "object" is a JSON object with the fields that are not NONE.
\* activity is the activity string of the line's assistant message.
ObjectLine(ts, sid, slug, cwd, activity) ==
    [kind |-> "object", timestamp |-> ts, sessionId |-> sid, slug |-> slug,
     cwd |-> cwd, activity |-> activity]
GarbageLine == [ObjectLine(FALSE, NONE, NONE, NONE, NONE) EXCEPT !.kind = "garbage"]
NonDictLine == [ObjectLine(FALSE, NONE, NONE, NONE, NONE) EXCEPT !.kind = "nondict"]

TranscriptLines ==
    {GarbageLine, NonDictLine,
     ObjectLine(TRUE, NONE, NONE, NONE, NONE),
     ObjectLine(FALSE, "sid", NONE, NONE, NONE),
     ObjectLine(TRUE, NONE, "slug", NONE, NONE),
     ObjectLine(TRUE, NONE, NONE, LineCwd, NONE),
     ObjectLine(FALSE, NONE, NONE, NonStringCwd, NONE),
     ObjectLine(TRUE, NONE, NONE, NONE, "a"),
     ObjectLine(FALSE, NONE, NONE, NONE, "b"),
     ObjectLine(TRUE, "sid", "slug", LineCwd, NONE)}

\* metadata = {...} before the file is read.
InitialMetadata ==
    [sessionId |-> CachePath.stem, slug |-> CachePath.stem, cwd |-> "",
     recentActivity |-> <<>>]

\* The first loop (startTimestamp): up to StartScanLines lines are parsed
\* until one has a timestamp.  TRUE when a line that is JSON but no object
\* makes data.get raise, which the loop's handler does not catch.
RECURSIVE StartScanAborts(_, _)
StartScanAborts(lines, i) ==
    IF i > Len(lines) \/ i > StartScanLines THEN FALSE
    ELSE IF lines[i].kind = "garbage" THEN StartScanAborts(lines, i + 1)
    ELSE IF lines[i].kind = "nondict" THEN TRUE
    ELSE IF lines[i].timestamp THEN FALSE
    ELSE StartScanAborts(lines, i + 1)

\* The body of the second loop for one line that is a JSON object.
TakeLine(st, line) ==
    [st EXCEPT
        !.metadata.sessionId = IF line.sessionId # NONE THEN line.sessionId ELSE @,
        !.metadata.slug = IF line.slug # NONE THEN line.slug ELSE @,
        !.metadata.cwd = IF line.cwd # NONE THEN line.cwd ELSE @,
        !.activities = IF line.activity # NONE THEN Append(@, line.activity) ELSE @]

\* The second loop from line i on: lines that are no JSON are skipped, a
\* line that is JSON but no object ends the loop through `except Exception`.
RECURSIVE ReadLinesFrom(_, _, _)
ReadLinesFrom(st, lines, i) ==
    IF i > Len(lines) THEN st
    ELSE IF lines[i].kind = "garbage" THEN ReadLinesFrom(st, lines, i + 1)
    ELSE IF lines[i].kind = "nondict" THEN [st EXCEPT !.aborted = TRUE]
    ELSE ReadLinesFrom(TakeLine(st, lines[i]), lines, i + 1)

\* Mutant: the first ten activities are kept.
RecentActivityFirst(activities) ==
    IF Len(activities) <= MaxRecentActivity THEN activities
    ELSE SubSeq(activities, 1, MaxRecentActivity)
\* activities[-10:] if activities else []
RecentActivity(activities) == LastN(activities, MaxRecentActivity)

\* The try block of extract_jsonl_metadata: both loops and, when neither
\* raised, metadata['recentActivity'].  `skip` lines lie before the last
\* 100000 bytes of the file and are not read by the second loop.
ReadTranscript(file) ==
    LET start == [metadata |-> InitialMetadata, activities |-> <<>>,
                  aborted |-> FALSE]
    IN  IF ~file.open_ok \/ StartScanAborts(file.lines, 1)
        THEN [start EXCEPT !.aborted = TRUE]
        ELSE LET st == ReadLinesFrom(start, file.lines, file.skip + 1)
             IN  IF st.aborted THEN st
                 ELSE [st EXCEPT
                         !.metadata.recentActivity = RecentActivity(st.activities)]

\* The slug after `if metadata['slug'] == metadata['sessionId']`.
BetterSlug(metadata) ==
    IF metadata.slug # metadata.sessionId THEN metadata.slug
    ELSE IF metadata.cwd # "" THEN LastComponent(metadata.cwd)
    ELSE FallbackSlug

\* extract_jsonl_metadata(jsonl_file) on a cache miss: the dict returned, or
\* raised when the code after the try block calls a string method on a cwd
\* that is no string.
ExtractFile(file) ==
    IF ~file.stat_ok
    THEN [raised |-> FALSE, aborted |-> FALSE, activities |-> <<>>,
          metadata |-> StatFailed]
    ELSE LET st == ReadTranscript(file) IN
         IF st.metadata.cwd = NonStringCwd
         THEN [raised |-> TRUE, aborted |-> st.aborted,
               activities |-> st.activities, metadata |-> st.metadata]
         ELSE [raised |-> FALSE, aborted |-> st.aborted,
               activities |-> st.activities,
               metadata |-> [st.metadata EXCEPT !.slug = BetterSlug(st.metadata)]]

NoRun == [aborted |-> FALSE, activities |-> <<>>]

ExtractInit ==
    /\ \E lines \in SeqsUpTo(TranscriptLines, MaxTranscript)
                      \cup UNION {[1..n -> {ObjectLine(TRUE, NONE, NONE, NONE, "a"),
                                            ObjectLine(FALSE, NONE, NONE, NONE, "b")}] :
                                    n \in (MaxRecentActivity + 1)..MaxLongTranscript} :
       \E io \in {<<FALSE, FALSE>>, <<TRUE, FALSE>>, <<TRUE, TRUE>>} :
       \E skip \in {0, 1} :
          /\ skip <= Len(lines)
          /\ t_file = [stat_ok |-> io[1], open_ok |-> io[2], lines |-> lines,
                       skip |-> skip]
    /\ t_out = NoSession
    /\ t_run = NoRun
    /\ t_pc = "ready"

ExtractOff ==
    /\ t_file = [stat_ok |-> FALSE, open_ok |-> FALSE, lines |-> <<>>, skip |-> 0]
    /\ t_out = NoSession
    /\ t_run = NoRun
    /\ t_pc = "idle"

\* One call of extract_jsonl_metadata with nothing cached for the file.
ExtractFileCall ==
    /\ t_pc = "ready"
    /\ LET r == ExtractFile(t_file) IN
          /\ t_run' = [aborted |-> r.aborted, activities |-> r.activities]
          /\ IF r.raised
             THEN /\ t_pc' = "error"
                  /\ t_out' = NoSession
             ELSE /\ t_pc' = "done"
                  /\ t_out' = r.metadata
    /\ UNCHANGED t_file

\* The call met an I/O or parse error: stat or open failed, or the read was
\* ended by an exception.
ExtractionFailed == ~t_file.stat_ok \/ t_run.aborted

\* C32: extracting metadata never raises, and on an I/O or parse error it
\* returns a record whose session id and slug are derived from the file name.
C32_NeverRaisesPartialFromFileName ==
    /\ t_pc # "error"
    /\ (t_pc = "done" /\ ExtractionFailed) =>
          /\ t_out.sessionId = CachePath.stem
          /\ t_out.slug = CachePath.stem

\* C32, what the failed extractions that return give: the file stem as
\* session id and slug when stat failed; after an error during the read the
\* session id, slug and cwd taken from the lines read before it, with the
\* file stem as the default of both and, where the slug still equals the
\* session id, the last component of the cwd or else of the project
\* directory's name in its place.
C32_PartialRecord ==
    (t_pc = "done" /\ ExtractionFailed) =>
        IF ~t_file.stat_ok THEN t_out = StatFailed
        ELSE /\ t_out.recentActivity = <<>>
             /\ t_out.sessionId \in {CachePath.stem, "sid"}
             /\ t_out.slug \in {CachePath.stem, "slug", "proj", FallbackSlug}
             /\ (~t_file.open_ok \/ StartScanAborts(t_file.lines, 1)) =>
                   /\ t_out.sessionId = CachePath.stem
                   /\ t_out.slug = FallbackSlug

\* C32 divergence: the call raised, on a transcript with a line whose cwd is
\* no string.
C32_RaisedOnNonStringCwd ==
    /\ t_pc = "error"
    /\ \E i \in 1..Len(t_file.lines) : t_file.lines[i].cwd = NonStringCwd

\* C32 divergence: a transcript that could not be opened gave a record whose
\* slug is the project directory's, not derived from the file name.
C32_PartialSlugFromDirectory ==
    /\ t_pc = "done"
    /\ t_file.stat_ok /\ ~t_file.open_ok
    /\ t_out.sessionId = CachePath.stem
    /\ t_out.slug = FallbackSlug

\* C33 (as claimed): the recentActivity list of every extracted metadata has
\* at most 10 entries, the last 10 activity strings derived from the part of
\* the transcript that was read, in transcript order.
C33_LastTenOfWhatWasRead ==
    (t_pc = "done" /\ t_file.stat_ok) =>
        /\ Len(t_out.recentActivity) <= MaxRecentActivity
        /\ t_out.recentActivity = LastN(t_run.activities, MaxRecentActivity)

\* The activity strings of lines i.. of the transcript, in order.
RECURSIVE ActivitiesFrom(_, _)
ActivitiesFrom(lines, i) ==
    IF i > Len(lines) THEN <<>>
    ELSE IF lines[i].kind = "object" /\ lines[i].activity # NONE
    THEN <<lines[i].activity>> \o ActivitiesFrom(lines, i + 1)
    ELSE ActivitiesFrom(lines, i + 1)

\* C33 (amended): the list has at most 10 entries; when the read reached the
\* end of the file they are the last 10 activity strings of the lines read,
\* in transcript order; when an error ended the read the list is empty,
\* whatever activities were read before the error.
C33_LastTenWhenReadCompleted ==
    (t_pc = "done" /\ t_file.stat_ok) =>
        /\ Len(t_out.recentActivity) <= MaxRecentActivity
        /\ ~t_run.aborted =>
              /\ t_run.activities = ActivitiesFrom(t_file.lines, t_file.skip + 1)
              /\ t_out.recentActivity = LastN(t_run.activities, MaxRecentActivity)
        /\ t_run.aborted => t_out.recentActivity = <<>>

\* C33 witness: a transcript with more than 10 activities, the first line not
\* read, gave the last 10 of them.
C33_Witness ==
    /\ t_pc = "done"
    /\ t_file.skip = 1
    /\ Len(t_run.activities) > MaxRecentActivity
    /\ t_run.activities[1] # t_run.activities[Len(t_run.activities)]
    /\ Len(t_out.recentActivity) = MaxRecentActivity
    /\ t_out.recentActivity[MaxRecentActivity]
          = t_file.lines[Len(t_file.lines)].activity

\* C33 boundary: an error ended the read after an activity had been derived,
\* and the list returned is empty.
C33_ActivityLostOnError ==
    /\ t_pc = "done"
    /\ t_run.aborted
    /\ t_run.activities # <<>>
    /\ t_out.recentActivity = <<>>

-----------------------------------------------------------------------------
(* websocket.py: ConnectionManager.connect, disconnect and broadcast as       *)
(* asyncio tasks.  A task runs without interruption from one await that       *)
(* suspends to the next; a task that finds self._lock held waits, and the     *)
(* tasks that waited run in any order once it is released.                    *)

\* The websockets and the broadcast calls of the specification.
Websockets == {"ws1", "ws2", "ws3"}
Broadcasts == {1, 2}
MaxConnections == 3

\* self._lock is not held by a broadcast.
NoHolder == 0

\* A broadcast call: pc is "idle" (not called), "sending" (in the loop at
\* index i, holding the lock), "cleanup" (after the loop) or "done".  ok and
\* failed are the websockets whose send returned and raised, removed the
\* ones its disconnect calls took off the list, registered the list when the
\* call returned.
NoBroadcast ==
    [pc |-> "idle", i |-> 0, disconnected |-> <<>>, ok |-> {}, failed |-> {},
     removed |-> {}, registered |-> {}]

\* list.remove(websocket) behind `if websocket in self.active_connections`
RemoveConnection(connections, websocket) ==
    SelectSeq(connections, LAMBDA c : c # websocket)

\* Mutant: every connection is put on the disconnected list.
CollectDisconnectedAll(disconnected, connection, raised) ==
    Append(disconnected, connection)
\* try: await connection.send_text(data)
\* except Exception: disconnected.append(connection)
CollectDisconnected(disconnected, connection, raised) ==
    IF raised THEN Append(disconnected, connection) ELSE disconnected

BroadcastInit ==
    /\ active_connections = <<>>
    /\ log_subscribers = {}
    /\ b_lock = NoHolder
    /\ b_open = Websockets
    /\ b_accepted = {}
    /\ b_received = [w \in Websockets |-> {}]
    /\ b_task = [t \in Broadcasts |-> NoBroadcast]

BroadcastOff ==
    /\ active_connections = <<>>
    /\ log_subscribers = {}
    /\ b_lock = NoHolder
    /\ b_open = {}
    /\ b_accepted = {}
    /\ b_received = [w \in Websockets |-> {}]
    /\ b_task = [t \in Broadcasts |-> NoBroadcast]

\* connect(websocket): accept, then the append under the lock.  A websocket
\* is accepted once.
Connect ==
    /\ b_lock = NoHolder
    /\ Len(active_connections) < MaxConnections
    /\ \E w \in Websockets \ b_accepted :
          /\ b_accepted' = b_accepted \cup {w}
          /\ active_connections' = Append(active_connections, w)
    /\ UNCHANGED <<log_subscribers, b_lock, b_open, b_received, b_task>>

\* disconnect(websocket) as the websocket's handler calls it.
Disconnect ==
    /\ b_lock = NoHolder
    /\ \E w \in b_accepted :
          /\ active_connections' = RemoveConnection(active_connections, w)
          /\ log_subscribers' = log_subscribers \ {w}
    /\ UNCHANGED <<b_lock, b_open, b_accepted, b_received, b_task>>

\* subscribe_to_logs(websocket, enabled=True) of a connected websocket.
SubscribeToLogs ==
    /\ b_lock = NoHolder
    /\ \E w \in b_open :
          /\ \E i \in 1..Len(active_connections) : active_connections[i] = w
          /\ log_subscribers' = log_subscribers \cup {w}
    /\ UNCHANGED <<active_connections, b_lock, b_open, b_accepted, b_received,
                   b_task>>

\* The peer of a websocket goes away: sends to it raise from now on.
PeerCloses ==
    /\ \E w \in b_open \cap b_accepted : b_open' = b_open \ {w}
    /\ UNCHANGED <<active_connections, log_subscribers, b_lock, b_accepted,
                   b_received, b_task>>

\* broadcast(message) up to the first send: nothing to do on an empty list;
\* otherwise the lock is taken and the loop starts.
BroadcastStart(t) ==
    /\ b_task[t].pc = "idle"
    /\ IF active_connections = <<>>
       THEN /\ b_task' = [b_task EXCEPT ![t].pc = "done"]
            /\ UNCHANGED b_lock
       ELSE /\ b_lock = NoHolder
            /\ b_lock' = t
            /\ b_task' = [b_task EXCEPT ![t].pc = "sending", ![t].i = 1]
    /\ UNCHANGED <<active_connections, log_subscribers, b_open, b_accepted,
                   b_received>>

\* One iteration of the loop: the send to the connection at index i returns
\* or raises.  After the last one the lock is released.
BroadcastSend(t) ==
    /\ b_task[t].pc = "sending"
    /\ LET connection == active_connections[b_task[t].i]
           raised == connection \notin b_open
           last == b_task[t].i = Len(active_connections)
       IN /\ b_received' = IF raised THEN b_received
                           ELSE [b_received EXCEPT ![connection] = @ \cup {t}]
          /\ b_task' = [b_task EXCEPT
                ![t].disconnected =
                    CollectDisconnected(@, connection, raised),
                ![t].ok = IF raised THEN @ ELSE @ \cup {connection},
                ![t].failed = IF raised THEN @ \cup {connection} ELSE @,
                ![t].i = @ + 1,
                ![t].pc = IF last THEN "cleanup" ELSE "sending"]
          /\ b_lock' = IF last THEN NoHolder ELSE b_lock
    /\ UNCHANGED <<active_connections, log_subscribers, b_open, b_accepted>>

\* for conn in disconnected: await self.disconnect(conn) - one call, or the
\* return when none is left.
BroadcastCleanup(t) ==
    /\ b_task[t].pc = "cleanup"
    /\ IF b_task[t].disconnected = <<>>
       THEN /\ b_task' = [b_task EXCEPT
                  ![t].pc = "done",
                  ![t].registered =
                      {active_connections[i] : i \in 1..Len(active_connections)}]
            /\ UNCHANGED <<active_connections, log_subscribers>>
       ELSE /\ b_lock = NoHolder
            /\ LET conn == Head(b_task[t].disconnected)
                   present == \E i \in 1..Len(active_connections) :
                                 active_connections[i] = conn
               IN /\ active_connections' = RemoveConnection(active_connections, conn)
                  /\ log_subscribers' = log_subscribers \ {conn}
                  /\ b_task' = [b_task EXCEPT
                        ![t].disconnected = Tail(@),
                        ![t].removed = IF present THEN @ \cup {conn} ELSE @]
    /\ UNCHANGED <<b_lock, b_open, b_accepted, b_received>>

\* C34 (as claimed): when a broadcast has completed, every websocket whose
\* send raised is no longer registered, and every websocket whose send
\* succeeded is still registered and received the message.
C34_ExactlyFailedRemoved ==
    \A t \in Broadcasts :
        (b_task[t].pc = "done") =>
            /\ b_task[t].failed \cap b_task[t].registered = {}
            /\ b_task[t].ok \subseteq b_task[t].registered
            /\ \A w \in b_task[t].ok : t \in b_received[w]

\* C34 (amended): when a broadcast has completed, every websocket whose send
\* raised is no longer registered, the broadcast has removed no websocket
\* whose send succeeded, and every websocket whose send succeeded received
\* the message; one of those is registered unless a disconnect call or
\* another broadcast removed it meanwhile.
C34_FailedRemovedOthersKept ==
    \A t \in Broadcasts :
        /\ b_task[t].removed \subseteq b_task[t].failed
        /\ (b_task[t].pc = "done") =>
              /\ b_task[t].failed \cap b_task[t].registered = {}
              /\ b_task[t].ok \cap b_task[t].failed = {}
              /\ \A w \in b_task[t].ok : t \in b_received[w]

\* C34 witness: a broadcast over three websockets completed; it removed the
\* one whose send raised, and the other two received the message and are
\* registered.
C34_Witness ==
    \E t \in Broadcasts :
        /\ b_task[t].pc = "done"
        /\ Cardinality(b_task[t].ok) = 2
        /\ Cardinality(b_task[t].failed) = 1
        /\ b_task[t].removed = b_task[t].failed
        /\ b_task[t].registered = b_task[t].ok

\* C34 boundary: a broadcast completed, and a websocket whose send succeeded
\* is not registered: a disconnect call ran between the loop and the
\* broadcast's own disconnect calls.
C34_SucceededNotRegistered ==
    \E t \in Broadcasts :
        /\ b_task[t].pc = "done"
        /\ b_task[t].failed # {}
        /\ \E w \in b_task[t].ok :
              /\ w \notin b_task[t].registered
              /\ \A u \in Broadcasts : w \notin b_task[u].removed

-----------------------------------------------------------------------------
(* routes/sessions.py: check_sessions_changed, against get_sessions polls     *)
(* and changes of the hook-state file and of the transcript.                  *)

\* Bounds of the dirty-check specification.
MaxDirtyClock == 64
MaxDirtyWrites == 3

\* The session whose hook-state file and transcript are watched.
DirtySid == SessionNames[1]

\* Kinds of session data.
StateData == "state"
TranscriptData == "transcript"
\* Before the first poll everything is new to the server.
ServerStart == "start"

\* `path_str in _metadata_cache` is false.
NoDirtyEntry == [mtime |-> NoFile, cache_time |-> NoFile]

NoDirtyCall ==
    [kind |-> "none", changed |-> FALSE, before |-> 0, dirty |-> {},
     seen_change |-> FALSE, fresh |-> FALSE]

\* The files the scan of STATE_DIR finds.
DirtyStateFiles(state_file) == [sid \in {DirtySid} |-> state_file]

\* get_all_active_state_files as far as the timestamp goes: nothing when
\* STATE_DIR does not exist; else the remembered mtimes are replaced and the
\* timestamp is updated when something changed.
ScanForDirtyCheck(state_dir, state_file, remembered, last, now) ==
    IF ~state_dir THEN [remembered |-> remembered, last |-> last]
    ELSE LET current_mtimes == CurrentMtimes(DirtyStateFiles(state_file))
         IN [remembered |-> current_mtimes,
             last |-> IF StateChanged(remembered, current_mtimes)
                      THEN UpdateActivityTimestamp(now)
                      ELSE last]

\* The cache test of extract_jsonl_metadata.
DirtyCacheHit(entry, current_mtime, now) ==
    /\ entry # NoDirtyEntry
    /\ entry.mtime = current_mtime
    /\ (now - entry.cache_time) < METADATA_CACHE_TTL

\* extract_jsonl_metadata as far as the timestamp goes: a transcript that is
\* gone is not extracted; a cache hit changes nothing; a miss stores an entry
\* and updates the timestamp.
ExtractForDirtyCheck(transcript, entry, last, now) ==
    IF transcript = NoFile THEN [entry |-> entry, last |-> last]
    ELSE IF DirtyCacheHit(entry, transcript, now)
    THEN [entry |-> entry, last |-> last]
    ELSE [entry |-> [mtime |-> transcript, cache_time |-> now],
          last |-> UpdateActivityTimestamp(now)]

DirtyIdle ==
    /\ q_state_file = NoFile
    /\ q_transcript = NoFile
    /\ q_state_file_mtimes = <<>>
    /\ q_metadata_cache = NoDirtyEntry
    /\ q_last_activity_time = 0
    /\ q_since = 0
    /\ q_writes = 0
    /\ q_dirty_check = {}
    /\ q_dirty_poll = {ServerStart}
    /\ q_call = NoDirtyCall

DirtyInit ==
    /\ q_clock = 1
    /\ q_state_dir \in BOOLEAN
    /\ DirtyIdle

DirtyOff ==
    /\ q_clock = 0
    /\ q_state_dir = FALSE
    /\ DirtyIdle

\* check_sessions_changed(since), with the timestamp the previous check
\* returned (0 for the first).
CheckSessionsChanged ==
    LET scan == ScanForDirtyCheck(q_state_dir, q_state_file,
                                  q_state_file_mtimes, q_last_activity_time,
                                  q_clock)
        current == scan.last
    IN /\ q_state_file_mtimes' = scan.remembered
       /\ q_last_activity_time' = current
       /\ q_call' = [kind |-> "check", changed |-> current > q_since,
                     before |-> q_last_activity_time, dirty |-> q_dirty_check,
                     seen_change |-> scan.last # q_last_activity_time,
                     fresh |-> FALSE]
       /\ q_since' = current
       /\ q_dirty_check' = {}
       /\ UNCHANGED <<q_clock, q_state_dir, q_state_file, q_transcript,
                      q_metadata_cache, q_writes, q_dirty_poll>>

\* A get_sessions poll: the scan of the state files, then the transcript's
\* metadata.
GetSessionsPoll ==
    LET scan == ScanForDirtyCheck(q_state_dir, q_state_file,
                                  q_state_file_mtimes, q_last_activity_time,
                                  q_clock)
        ext == ExtractForDirtyCheck(q_transcript, q_metadata_cache, scan.last,
                                    q_clock)
    IN /\ q_state_file_mtimes' = scan.remembered
       /\ q_metadata_cache' = ext.entry
       /\ q_last_activity_time' = ext.last
       /\ q_call' = [kind |-> "poll", changed |-> FALSE,
                     before |-> q_last_activity_time, dirty |-> q_dirty_poll,
                     seen_change |-> scan.last # q_last_activity_time,
                     fresh |-> ext.entry = q_metadata_cache]
       /\ q_dirty_poll' = {}
       /\ UNCHANGED <<q_clock, q_state_dir, q_state_file, q_transcript,
                      q_since, q_writes, q_dirty_check>>

\* A hook creates or rewrites the state file, or the file is removed; a second
\* has passed since the last event.
TouchStateFile ==
    /\ q_state_dir
    /\ q_writes < MaxDirtyWrites
    /\ q_clock < MaxDirtyClock
    /\ \E removed \in BOOLEAN :
          /\ removed => q_state_file # NoFile
          /\ q_state_file' = IF removed THEN NoFile ELSE q_clock + 1
    /\ q_clock' = q_clock + 1
    /\ q_writes' = q_writes + 1
    /\ q_dirty_check' = q_dirty_check \cup {StateData}
    /\ q_dirty_poll' = q_dirty_poll \cup {StateData}
    /\ UNCHANGED <<q_state_dir, q_transcript, q_state_file_mtimes,
                   q_metadata_cache, q_last_activity_time, q_since, q_call>>

\* The transcript is created or appended to, or it is removed; a second has
\* passed since the last event.
TouchTranscript ==
    /\ q_writes < MaxDirtyWrites
    /\ q_clock < MaxDirtyClock
    /\ \E removed \in BOOLEAN :
          /\ removed => q_transcript # NoFile
          /\ q_transcript' = IF removed THEN NoFile ELSE q_clock + 1
    /\ q_clock' = q_clock + 1
    /\ q_writes' = q_writes + 1
    /\ q_dirty_check' = q_dirty_check \cup {TranscriptData}
    /\ q_dirty_poll' = q_dirty_poll \cup {TranscriptData}
    /\ UNCHANGED <<q_state_dir, q_state_file, q_state_file_mtimes,
                   q_metadata_cache, q_last_activity_time, q_since, q_call>>

\* The cache's time to live passes with no change to any file.
DirtyTick ==
    /\ q_clock + METADATA_CACHE_TTL <= MaxDirtyClock
    /\ q_clock' = q_clock + METADATA_CACHE_TTL
    /\ UNCHANGED <<q_state_dir, q_state_file, q_transcript, q_state_file_mtimes,
                   q_metadata_cache, q_last_activity_time, q_since, q_writes,
                   q_dirty_check, q_dirty_poll, q_call>>

\* C37: after any transcript or hook-state file was created, modified or
\* removed, the next check_sessions_changed call, made with the timestamp the
\* previous check returned, reports changed = true.
C37_ChangeIsReported ==
    (q_call.kind = "check" /\ q_call.dirty # {}) => q_call.changed

\* C37, for a change the scan of the check saw (the state files it found are
\* not those the previous scan found): the check reports changed = true.
C37_SeenStateChangeIsReported ==
    (q_call.kind = "check" /\ q_call.seen_change) => q_call.changed

\* C37 divergence: the transcript was written, nothing else, and the next
\* check reported changed = false.
C37_TranscriptChangeMissed ==
    /\ q_call.kind = "check"
    /\ q_call.dirty = {TranscriptData}
    /\ q_transcript # NoFile
    /\ q_state_dir
    /\ ~q_call.changed

\* C38: a poll during which no transcript and no hook-state file was created,
\* modified or removed leaves the activity timestamp unchanged.
C38_UnchangedPollKeepsTimestamp ==
    (q_call.kind = "poll" /\ q_call.dirty = {}) =>
        q_last_activity_time = q_call.before

\* C38, within the cache's time to live: such a poll, when it stored no entry
\* for the transcript (there is none, or its cached entry was younger than the
\* time to live), leaves the timestamp unchanged.
C38_UnchangedWithinTtl ==
    (q_call.kind = "poll" /\ q_call.dirty = {} /\ q_call.fresh) =>
        q_last_activity_time = q_call.before

\* C38 divergence: no file changed since the previous poll, the cached entry
\* had reached the time to live, and the poll advanced the timestamp.
C38_AdvancedOnExpiry ==
    /\ q_call.kind = "poll"
    /\ q_call.dirty = {}
    /\ ~q_call.fresh
    /\ ~q_call.seen_change
    /\ q_last_activity_time > q_call.before

-----------------------------------------------------------------------------
(* Specifications *)

\* The matcher's variables while another component runs.
MatcherIdle ==
    /\ m_proc = [start_time |-> 0]
    /\ m_sessions = <<>>
    /\ m_after = <<>>
    /\ m_best = NoSession
    /\ m_pc = "idle"

\* The poll's variables while another component runs.
PollOff ==
    /\ processes = <<>>
    /\ transcripts = <<>>
    /\ active_states = <<>>
    /\ after_pass1 = NoMatches
    /\ pass2_before = <<>>
    /\ after_pass2 = NoMatches
    /\ pass3_groups = <<>>
    /\ matched_processes = <<>>
    /\ claimed_session_ids = {}
    /\ result = <<>>
    /\ p_pc = "idle"

CacheOff == CacheInit

SpecMatcherInit == MatcherInit /\ PollOff /\ CacheOff /\ ContOff /\ ConvOff
    /\ ConcOff /\ DiscOff /\ SweepOff /\ ActivityOff /\ StateOff /\ PeriodsOff /\ FilterOff /\ ExtractOff /\ BroadcastOff /\ DirtyOff
SpecMatcherNext == MatchCall /\ UNCHANGED <<pvars, cvars, fvars, xvars, kvars, gvars, wvars, avars, hvars, evars, lvars, tvars, bvars, qvars>>
SpecMatcher == SpecMatcherInit /\ [][SpecMatcherNext]_vars

SpecPollInit == PollInit /\ MatcherIdle /\ CacheOff /\ ContOff /\ ConvOff
    /\ ConcOff /\ DiscOff /\ SweepOff /\ ActivityOff /\ StateOff /\ PeriodsOff /\ FilterOff /\ ExtractOff /\ BroadcastOff /\ DirtyOff
SpecPollNext == GetSessionsCall /\ UNCHANGED <<mvars, cvars, fvars, xvars, kvars, gvars, wvars, avars, hvars, evars, lvars, tvars, bvars, qvars>>
SpecPoll == SpecPollInit /\ [][SpecPollNext]_vars

SpecCacheInit == CacheInit /\ MatcherIdle /\ PollOff /\ ContOff /\ ConvOff
    /\ ConcOff /\ DiscOff /\ SweepOff /\ ActivityOff /\ StateOff /\ PeriodsOff /\ FilterOff /\ ExtractOff /\ BroadcastOff /\ DirtyOff
SpecCacheNext ==
    /\ \/ ExtractCall
       \/ ModifyFile
       \/ DeleteFile
       \/ CreateFile
       \/ Tick
    /\ UNCHANGED <<mvars, pvars, fvars, xvars, kvars, gvars, wvars, avars, hvars, evars, lvars, tvars, bvars, qvars>>
SpecCache == SpecCacheInit /\ [][SpecCacheNext]_vars

SpecContInit == ContInit /\ MatcherIdle /\ PollOff /\ CacheOff /\ ConvOff
    /\ ConcOff /\ DiscOff /\ SweepOff /\ ActivityOff /\ StateOff /\ PeriodsOff /\ FilterOff /\ ExtractOff /\ BroadcastOff /\ DirtyOff
SpecContNext ==
    /\ \/ FindCall
       \/ CreateSibling
       \/ WriteFirstLine
       \/ WriteSourceCwd
    /\ UNCHANGED <<mvars, pvars, cvars, xvars, kvars, gvars, wvars, avars, hvars, evars, lvars, tvars, bvars, qvars>>
SpecCont == SpecContInit /\ [][SpecContNext]_vars

\* The callers keep asking for the source's continuation with the compaction
\* timestamp of its transcript.
SpecContLive ==
    /\ SpecContInit
    /\ [][SpecContNext]_vars
    /\ WF_vars(FindCall /\ f_ts' = SourceCompactionTs
                  /\ UNCHANGED <<mvars, pvars, cvars, xvars, kvars, gvars, wvars, avars, hvars, evars, lvars, tvars, bvars, qvars>>)

SpecConvInit == ConvInit /\ MatcherIdle /\ PollOff /\ CacheOff /\ ContOff
    /\ ConcOff /\ DiscOff /\ SweepOff /\ ActivityOff /\ StateOff /\ PeriodsOff /\ FilterOff /\ ExtractOff /\ BroadcastOff /\ DirtyOff
SpecConvNext ==
    /\ \/ ExtractConversationCall
       \/ ExtractConversationFrame
    /\ UNCHANGED <<mvars, pvars, cvars, fvars, kvars, gvars, wvars, avars, hvars, evars, lvars, tvars, bvars, qvars>>
SpecConv == SpecConvInit /\ [][SpecConvNext]_vars

SpecConcInit == ConcInit /\ MatcherIdle /\ PollOff /\ CacheOff /\ ContOff
    /\ ConvOff /\ DiscOff /\ SweepOff /\ ActivityOff /\ StateOff /\ PeriodsOff /\ FilterOff /\ ExtractOff /\ BroadcastOff /\ DirtyOff
SpecConcNext ==
    /\ \/ \E t \in Pollers : CleanupStart(t)
       \/ \E t \in Pollers : CleanupBegin(t)
       \/ \E t \in Pollers : CleanupIterate(t)
       \/ \E t \in Pollers : CleanupDelete(t)
       \/ \E t \in Pollers : ExtractStat(t)
       \/ \E t \in Pollers : ExtractRead(t)
       \/ \E t \in Pollers : ExtractStore(t)
       \/ AppendLine
       \/ ConcTick
    /\ UNCHANGED <<mvars, pvars, cvars, fvars, xvars, gvars, wvars, avars, hvars, evars, lvars, tvars, bvars, qvars>>
SpecConc == SpecConcInit /\ [][SpecConcNext]_vars

SpecDiscInit == DiscInit /\ MatcherIdle /\ PollOff /\ CacheOff /\ ContOff
    /\ ConvOff /\ ConcOff /\ SweepOff /\ ActivityOff /\ StateOff /\ PeriodsOff /\ FilterOff /\ ExtractOff /\ BroadcastOff /\ DirtyOff
SpecDiscNext ==
    /\ \/ CachedCall
       \/ PsAux
       \/ Lsof
       \/ PsP
       \/ OsChange
       \/ DiscTick
    /\ UNCHANGED <<mvars, pvars, cvars, fvars, xvars, kvars, wvars, avars, hvars, evars, lvars, tvars, bvars, qvars>>
SpecDisc == SpecDiscInit /\ [][SpecDiscNext]_vars


SpecSweepInit == SweepInit /\ MatcherIdle /\ PollOff /\ CacheOff /\ ContOff
    /\ ConvOff /\ ConcOff /\ DiscOff /\ ActivityOff /\ StateOff /\ PeriodsOff /\ FilterOff /\ ExtractOff /\ BroadcastOff /\ DirtyOff
SpecSweepNext ==
    /\ \/ GetAllActiveStateFiles
       \/ StoreMetadata
       \/ StoreContinuation
       \/ StateFileChange
       \/ SweepTick
    /\ UNCHANGED <<mvars, pvars, cvars, fvars, xvars, kvars, gvars, avars, hvars, evars, lvars, tvars, bvars, qvars>>
SpecSweep == SpecSweepInit /\ [][SpecSweepNext]_vars

\* Polling continues and time passes.
SpecSweepLive ==
    /\ SpecSweepInit
    /\ [][SpecSweepNext]_vars
    /\ WF_vars(GetAllActiveStateFiles
                  /\ UNCHANGED <<mvars, pvars, cvars, fvars, xvars, kvars, gvars, avars, hvars, evars, lvars, tvars, bvars, qvars>>)
    /\ WF_vars(SweepTick
                  /\ UNCHANGED <<mvars, pvars, cvars, fvars, xvars, kvars, gvars, avars, hvars, evars, lvars, tvars, bvars, qvars>>)


SpecActivityInit == ActivityInit /\ MatcherIdle /\ PollOff /\ CacheOff /\ ContOff
    /\ ConvOff /\ ConcOff /\ DiscOff /\ SweepOff /\ StateOff /\ PeriodsOff /\ FilterOff /\ ExtractOff /\ BroadcastOff /\ DirtyOff
SpecActivityNext ==
    /\ \/ ScanStateFiles
       \/ ExtractMiss
       \/ GetActivityTimestamp
       \/ WriteStateFile
       \/ ActivityTick
    /\ UNCHANGED <<mvars, pvars, cvars, fvars, xvars, kvars, gvars, wvars, hvars, evars, lvars, tvars, bvars, qvars>>
SpecActivity == SpecActivityInit /\ [][SpecActivityNext]_vars


SpecStateInit == StateInit /\ MatcherIdle /\ PollOff /\ CacheOff /\ ContOff
    /\ ConvOff /\ ConcOff /\ DiscOff /\ SweepOff /\ ActivityOff /\ PeriodsOff /\ FilterOff /\ ExtractOff /\ BroadcastOff /\ DirtyOff
SpecStateNext == AppendRecord /\ UNCHANGED <<mvars, pvars, cvars, fvars, xvars, kvars, gvars, wvars, avars, evars, lvars, tvars, bvars, qvars>>
SpecState == SpecStateInit /\ [][SpecStateNext]_vars


SpecPeriodsInit == PeriodsInit /\ MatcherIdle /\ PollOff /\ CacheOff /\ ContOff
    /\ ConvOff /\ ConcOff /\ DiscOff /\ SweepOff /\ ActivityOff /\ StateOff /\ FilterOff /\ ExtractOff /\ BroadcastOff /\ DirtyOff
SpecPeriodsNext == GetActivityPeriodsCall /\ UNCHANGED <<mvars, pvars, cvars, fvars, xvars, kvars, gvars, wvars, avars, hvars, lvars, tvars, bvars, qvars>>
SpecPeriods == SpecPeriodsInit /\ [][SpecPeriodsNext]_vars



SpecFilterInit == FilterInit /\ MatcherIdle /\ PollOff /\ CacheOff /\ ContOff
    /\ ConvOff /\ ConcOff /\ DiscOff /\ SweepOff /\ ActivityOff /\ StateOff
    /\ PeriodsOff /\ ExtractOff /\ BroadcastOff /\ DirtyOff
SpecFilterNext == GetClaudeProcessesCall /\ UNCHANGED <<mvars, pvars, cvars, fvars, xvars, kvars, gvars, wvars, avars, hvars, evars, tvars, bvars, qvars>>
SpecFilter == SpecFilterInit /\ [][SpecFilterNext]_vars



SpecExtractInit == ExtractInit /\ MatcherIdle /\ PollOff /\ CacheOff /\ ContOff
    /\ ConvOff /\ ConcOff /\ DiscOff /\ SweepOff /\ ActivityOff /\ StateOff
    /\ PeriodsOff /\ FilterOff /\ BroadcastOff /\ DirtyOff
SpecExtractNext == ExtractFileCall /\ UNCHANGED <<mvars, pvars, cvars, fvars, xvars, kvars, gvars, wvars, avars, hvars, evars, lvars, bvars, qvars>>
SpecExtract == SpecExtractInit /\ [][SpecExtractNext]_vars



SpecBroadcastInit == BroadcastInit /\ MatcherIdle /\ PollOff /\ CacheOff /\ ContOff
    /\ ConvOff /\ ConcOff /\ DiscOff /\ SweepOff /\ ActivityOff /\ StateOff
    /\ PeriodsOff /\ FilterOff /\ ExtractOff /\ DirtyOff
SpecBroadcastNext ==
    /\ \/ Connect
       \/ Disconnect
       \/ SubscribeToLogs
       \/ PeerCloses
       \/ \E t \in Broadcasts : BroadcastStart(t)
       \/ \E t \in Broadcasts : BroadcastSend(t)
       \/ \E t \in Broadcasts : BroadcastCleanup(t)
    /\ UNCHANGED <<mvars, pvars, cvars, fvars, xvars, kvars, gvars, wvars, avars, hvars, evars, lvars, tvars, qvars>>
SpecBroadcast == SpecBroadcastInit /\ [][SpecBroadcastNext]_vars


SpecDirtyInit == DirtyInit /\ MatcherIdle /\ PollOff /\ CacheOff /\ ContOff
    /\ ConvOff /\ ConcOff /\ DiscOff /\ SweepOff /\ ActivityOff /\ StateOff /\ PeriodsOff /\ FilterOff /\ ExtractOff /\ BroadcastOff
SpecDirtyNext ==
    /\ \/ CheckSessionsChanged
       \/ GetSessionsPoll
       \/ TouchStateFile
       \/ TouchTranscript
       \/ DirtyTick
    /\ UNCHANGED <<mvars, pvars, cvars, fvars, xvars, kvars, gvars, wvars, avars, hvars, evars, lvars, tvars, bvars>>
SpecDirty == SpecDirtyInit /\ [][SpecDirtyNext]_vars

=============================================================================
